---- MODULE Spec2Model ----
(***************************************************************************)
(* pycodereview: the analysis driver (run_on_file), the rule registry on   *)
(* unparsable input, the line-spec parser/compressor, issue merging,       *)
(* sorting and the exit code of main, modelled from                        *)
(* src/src/pycodereview/code_review.py.                                    *)
(*                                                                         *)
(* Python strings are sequences of one-character strings, so that split,   *)
(* strip, int(), str(), upper() and the regular expressions of the rules *)
(* are computed character by character.                                    *)
(***************************************************************************)
EXTENDS Integers, Sequences, FiniteSets, TLC

VARIABLES
    mode,        \* which entry point this behaviour exercises
    pc,          \* position inside the entry point
    s,           \* lines: the line-spec string given to _parse_lines
    nums,        \* lines: the list of ints given to _compress_lines
    out,         \* lines: the string computed from s or nums
    out2,        \* lines: compress(parse(out))
    back,        \* lines: _parse_lines(out)
    items,       \* list of (filename, Issue) in flight (all_issues in main)
    input,       \* the list items was computed from by the last step
    text,        \* the text of the analysed file
    tree,        \* _safe_parse(text): NoTree or the syntax tree
    args,        \* the parsed command line of main
    rule,        \* rules: index in ALL_RULES of the rule checked last (0: none)
    found,       \* rules: what that check, or Rule.make, returned
    line_spec,   \* rules: the line_spec given to Rule.make
    inst,        \* rules: the attributes of the shared visitor-rule instances
    attrs,       \* rules: the attributes the rules have set on nodes of tree
    calls,       \* rules: how many times a rule was invoked
    path_kind,   \* main: what is at the path args.file: "file", "dir" or "missing"
    written,     \* main: <<the list handed to the report writers>>, <<>> before
    exit_code    \* what main returned (-1 while it runs)

vars == <<mode, pc, s, nums, out, out2, back, items, input, text, tree, args,
          rule, found, line_spec, inst, attrs, calls, path_kind, written, exit_code>>

linesVars == <<s, nums, out, out2, back>>
postVars == <<items, input>>
mainVars == <<text, tree, args, path_kind, written, exit_code>>
rulesVars == <<rule, found, line_spec, inst, attrs, calls>>

----------------------------------------------------------------------------
(* Bounds of the model.                                                    *)

\* longest line-spec string given to _parse_lines
MaxLen == 5
\* most digits of a number written in such a string
MaxDigits == 2
\* longest list given to _compress_lines
MaxNums == 3
\* largest line number in a list given to _compress_lines
MaxLineNo == 11
\* longest list of (filename, Issue) given to merge and sort
MaxItems == 3
\* most lines of an analysed file
MaxTextLines == 2
\* largest line number looked for when a line-spec is read back in a claim
MaxSpecLine == 25
\* most statements of a file a single rule is checked on
MaxStmts == 1
\* most checks made one after another on the instances of the registry
MaxCalls == 2

\* None where a str is expected
None == "None"
\* None where a syntax tree is expected
NoTree == [type |-> "None"]
\* Optional[int]: None is <<>>, the int n is <<n>>
NoInt == <<>>

----------------------------------------------------------------------------
(* Python str and list primitives.                                         *)

Digits == <<"0", "1", "2", "3", "4", "5", "6", "7", "8", "9">>

IsDigit(c) == \E i \in 1..10 : Digits[i] = c

DigitVal(c) == (CHOOSE i \in 1..10 : Digits[i] = c) - 1

IsSpace(c) == c \in {" ", "\t", "\n", "\r"}

\* str.strip(): drop leading and trailing whitespace
RECURSIVE LStrip(_)
LStrip(w) ==
    IF w # <<>> /\ IsSpace(Head(w)) THEN LStrip(Tail(w)) ELSE w

RECURSIVE RStrip(_)
RStrip(w) ==
    IF w # <<>> /\ IsSpace(w[Len(w)])
    THEN RStrip(SubSeq(w, 1, Len(w) - 1))
    ELSE w

Strip(w) == RStrip(LStrip(w))

\* sep in w, for a one-character sep
Contains(w, c) == \E i \in 1..Len(w) : w[i] = c

\* index of the first occurrence of c in w, 0 when there is none
IndexOf(w, c) ==
    IF Contains(w, c)
    THEN CHOOSE i \in 1..Len(w) : w[i] = c /\ \A j \in 1..(i - 1) : w[j] # c
    ELSE 0

\* str.split(c): every piece between separators, empty pieces kept
RECURSIVE Split(_, _)
Split(w, c) ==
    LET i == IndexOf(w, c)
    IN  IF i = 0 THEN <<w>>
        ELSE <<SubSeq(w, 1, i - 1)>> \o Split(SubSeq(w, i + 1, Len(w)), c)

\* str.split(c, 1): at most one split, at the first separator
Split1(w, c) ==
    LET i == IndexOf(w, c)
    IN  IF i = 0 THEN <<w>>
        ELSE <<SubSeq(w, 1, i - 1), SubSeq(w, i + 1, Len(w))>>

\* sep.join(parts)
RECURSIVE Join(_, _)
Join(parts, sep) ==
    IF parts = <<>> THEN <<>>
    ELSE IF Len(parts) = 1 THEN parts[1]
    ELSE parts[1] \o sep \o Join(Tail(parts), sep)

\* value of a non-empty run of decimal digits
RECURSIVE DigitsVal(_)
DigitsVal(w) ==
    IF w = <<>> THEN 0
    ELSE 10 * DigitsVal(SubSeq(w, 1, Len(w) - 1)) + DigitVal(w[Len(w)])

AllDigits(w) == w # <<>> /\ \A i \in 1..Len(w) : IsDigit(w[i])

\* int(w): surrounding whitespace dropped, one optional sign, then digits only;
\* anything else raises ValueError (ok = FALSE). The characters of the model
\* hold no '_' and no non-ASCII digit, which int() would also take.
int(w) ==
    LET t == Strip(w)
        signed == t # <<>> /\ t[1] \in {"+", "-"}
        body == IF signed THEN Tail(t) ELSE t
    IN  IF AllDigits(body)
        THEN [ok |-> TRUE,
              val |-> IF signed /\ t[1] = "-" THEN 0 - DigitsVal(body) ELSE DigitsVal(body)]
        ELSE [ok |-> FALSE, val |-> 0]

\* str(n) for an int n
RECURSIVE NatStr(_)
NatStr(n) ==
    IF n < 10 THEN <<Digits[n + 1]>>
    ELSE NatStr(n \div 10) \o <<Digits[(n % 10) + 1]>>

str(n) == IF n < 0 THEN <<"-">> \o NatStr(0 - n) ELSE NatStr(n)

\* range(a, b + 1) as a list
Range(a, b) == [i \in 1..(b - a + 1) |-> a + i - 1]

\* set(list)
SetOf(list) == {list[i] : i \in 1..Len(list)}

Min(S) == CHOOSE x \in S : \A y \in S : x <= y

Max(S) == CHOOSE x \in S : \A y \in S : x >= y

\* sorted(S) for a set of ints: the members of S among min(S)..max(S), ascending
Sorted(S) ==
    IF S = {} THEN <<>>
    ELSE SelectSeq(Range(Min(S), Max(S)), LAMBDA x : x \in S)

----------------------------------------------------------------------------
(* Line-spec parsing and compression.                                      *)

\* ParsePart with the range taken without its last line: range(start, end)
ParsePart_HalfOpenRange(raw) ==
    LET part == Strip(raw)
    IN  IF part = <<>> THEN <<>>
        ELSE IF Contains(part, "-")
        THEN LET ab == Split1(part, "-")
                 a == int(ab[1])
                 b == int(ab[2])
             IN  IF a.ok /\ b.ok /\ a.val <= b.val
                 THEN Range(a.val, b.val - 1)
                 ELSE <<>>
        ELSE LET n == int(part)
             IN  IF n.ok THEN <<n.val>> ELSE <<>>

\* ParsePart that reads the part '+K more' as the line number K
ParsePart_MoreAsLine(raw) ==
    LET part == Strip(raw)
    IN  IF part = <<>> THEN <<>>
        ELSE IF Contains(part, "-")
        THEN LET ab == Split1(part, "-")
                 a == int(ab[1])
                 b == int(ab[2])
             IN  IF a.ok /\ b.ok /\ a.val <= b.val
                 THEN Range(a.val, b.val)
                 ELSE <<>>
        ELSE LET n == int(part)
             IN  IF n.ok THEN <<n.val>>
                 ELSE IF Len(part) > 1 /\ part[1] = "+" /\ IsDigit(part[2])
                 THEN <<DigitVal(part[2])>>
                 ELSE <<>>

\* one part of the comma list: the body of the for loop of _parse_lines
ParsePart(raw) ==
    LET part == Strip(raw)
    IN  IF part = <<>> THEN <<>>
        ELSE IF Contains(part, "-")
        THEN LET ab == Split1(part, "-")
                 a == int(ab[1])
                 b == int(ab[2])
             IN  IF a.ok /\ b.ok /\ a.val <= b.val
                 THEN Range(a.val, b.val)
                 ELSE <<>>
        ELSE LET n == int(part)
             IN  IF n.ok THEN <<n.val>> ELSE <<>>

RECURSIVE ParseParts(_)
ParseParts(parts) ==
    IF parts = <<>> THEN <<>>
    ELSE ParsePart(Head(parts)) \o ParseParts(Tail(parts))

_parse_lines(w) == ParseParts(Split(w, ","))

\* RunStr that writes a range with its end first
RunStr_EndFirst(start, prev) ==
    IF start # prev THEN str(prev) \o <<"-">> \o str(start) ELSE str(start)

\* RunStr that writes a range only for runs of three or more lines
RunStr_LongRunsOnly(start, prev) ==
    IF prev > start + 1 THEN str(start) \o <<"-">> \o str(prev) ELSE str(start)

\* a finished run: 'start-prev', or 'start' when the run has one element
RunStr(start, prev) ==
    IF start # prev THEN str(start) \o <<"-">> \o str(prev) ELSE str(start)

\* the for loop of _compress_lines over nums[1:], with the append after it
RECURSIVE CompressLoop(_, _, _, _)
CompressLoop(rest, start, prev, acc) ==
    IF rest = <<>> THEN acc \o <<RunStr(start, prev)>>
    ELSE IF Head(rest) = prev + 1
    THEN CompressLoop(Tail(rest), start, Head(rest), acc)
    ELSE CompressLoop(Tail(rest), Head(rest), Head(rest), acc \o <<RunStr(start, prev)>>)

_compress_lines(list) ==
    IF list = <<>> THEN <<>>
    ELSE LET sorted == Sorted(SetOf(list))
         IN  Join(CompressLoop(Tail(sorted), sorted[1], sorted[1], <<>>), <<",">>)

----------------------------------------------------------------------------
(* Issues, severities, merging and sorting.                                *)

\* the dataclass Issue
Issue(category, priority, impacted_lines, potential_impact, description) ==
    [category |-> category, priority |-> priority, impacted_lines |-> impacted_lines,
     potential_impact |-> potential_impact, description |-> description]

PRIORITY_RANK == [HIGH |-> 3, MEDIUM |-> 2, LOW |-> 1]

\* PRIORITY_RANK.get(p, default)
RankGet(p, default) == IF p \in DOMAIN PRIORITY_RANK THEN PRIORITY_RANK[p] ELSE default

\* _severity_pick_max that keeps the later of the two priorities
_severity_pick_last(a, b) == b

_severity_pick_max(a, b) == IF RankGet(a, 0) >= RankGet(b, 0) THEN a ELSE b

\* str.split() without a separator: the maximal runs of non-blank characters
RECURSIVE SplitWs(_)
SplitWs(w) ==
    LET t == LStrip(w)
    IN  IF t = <<>> THEN <<>>
        ELSE LET blank == {i \in 1..Len(t) : IsSpace(t[i])}
                 stop == IF blank = {} THEN Len(t) + 1 ELSE Min(blank)
             IN  <<SubSeq(t, 1, stop - 1)>> \o SplitWs(SubSeq(t, stop, Len(t)))

\* norm of merge_same_issue_across_lines: collapse whitespace only
norm(w) == Join(SplitWs(w), <<" ">>)

\* MergeKey without the category
MergeKey_NoCategory(item) ==
    <<item[1], norm(item[2].potential_impact), norm(item[2].description)>>

\* the merge key of one (filename, issue)
MergeKey(item) ==
    <<item[1], item[2].category, norm(item[2].potential_impact), norm(item[2].description)>>

\* x in list
InList(x, list) == \E i \in 1..Len(list) : list[i] = x

\* the body of the first loop of merge_same_issue_across_lines for one item;
\* st.grouped is the dict, st.order the list of keys
MergeStep(st, item) ==
    LET key == MergeKey(item)
        issue == item[2]
    IN  IF key \notin DOMAIN st.grouped
        THEN [grouped |-> st.grouped @@
                  (key :> [filename |-> item[1],
                           category |-> issue.category,
                           priority |-> issue.priority,
                           impacted_lines |-> _parse_lines(issue.impacted_lines),
                           impacts |-> <<issue.potential_impact>>,
                           descs |-> <<issue.description>>]),
              order |-> Append(st.order, key)]
        ELSE LET g == st.grouped[key]
             IN  [grouped |-> [st.grouped EXCEPT ![key] =
                      [filename |-> g.filename,
                       category |-> g.category,
                       priority |-> _severity_pick_max(g.priority, issue.priority),
                       impacted_lines |-> g.impacted_lines \o _parse_lines(issue.impacted_lines),
                       impacts |-> IF InList(issue.potential_impact, g.impacts)
                                   THEN g.impacts
                                   ELSE Append(g.impacts, issue.potential_impact),
                       descs |-> IF InList(issue.description, g.descs)
                                 THEN g.descs
                                 ELSE Append(g.descs, issue.description)]],
                  order |-> st.order]

RECURSIVE MergeLoop(_, _)
MergeLoop(st, list) ==
    IF list = <<>> THEN st
    ELSE MergeLoop(MergeStep(st, Head(list)), Tail(list))

\* ' | '
Bar == <<" ", "|", " ">>

\* MergedItem that gives every merged issue the lowest priority
MergedItem_LowPriority(g) ==
    LET lines == _compress_lines(g.impacted_lines)
    IN  <<g.filename,
          Issue(g.category, "LOW", IF lines # <<>> THEN lines ELSE <<>>,
                Join(g.impacts, Bar), Join(g.descs, Bar))>>

\* the second loop: one merged item per key, in the order of first occurrence
MergedItem(g) ==
    LET lines == _compress_lines(g.impacted_lines)
    IN  <<g.filename,
          Issue(g.category, g.priority, IF lines # <<>> THEN lines ELSE <<>>,
                Join(g.impacts, Bar), Join(g.descs, Bar))>>

merge_same_issue_across_lines(list) ==
    LET st == MergeLoop([grouped |-> <<>>, order |-> <<>>], list)
    IN  [k \in 1..Len(st.order) |-> MergedItem(st.grouped[st.order[k]])]

\* characters by code point: ' ' is 32, '#'..'Z' are 35..90, '_' is 95 and
\* 'a'..'z' are 97..122
AsciiFrom35 ==
    <<"#", "$", "%", "&", "'", "(", ")", "*", "+", ",", "-", ".", "/",
      "0", "1", "2", "3", "4", "5", "6", "7", "8", "9", ":", ";", "<", "=", ">", "?",
      "@", "A", "B", "C", "D", "E", "F", "G", "H", "I", "J", "K", "L", "M", "N", "O",
      "P", "Q", "R", "S", "T", "U", "V", "W", "X", "Y", "Z">>

AsciiFrom97 ==
    <<"a", "b", "c", "d", "e", "f", "g", "h", "i", "j", "k", "l", "m", "n", "o",
      "p", "q", "r", "s", "t", "u", "v", "w", "x", "y", "z">>

\* ord(c)
Ord(c) ==
    IF c = " " THEN 32
    ELSE IF c = "_" THEN 95
    ELSE IF \E i \in 1..Len(AsciiFrom35) : AsciiFrom35[i] = c
    THEN 34 + (CHOOSE i \in 1..Len(AsciiFrom35) : AsciiFrom35[i] = c)
    ELSE 96 + (CHOOSE i \in 1..Len(AsciiFrom97) : AsciiFrom97[i] = c)

\* a < b for two str: by code point at the first difference, a proper prefix first
StrLess(a, b) ==
    \E i \in 1..(Len(b)) :
        /\ \A j \in 1..(i - 1) : j <= Len(a) /\ a[j] = b[j]
        /\ Len(a) >= i - 1
        /\ \/ Len(a) = i - 1
           \/ Len(a) >= i /\ Ord(a[i]) < Ord(b[i])

\* os.path.basename(path): what follows the last '/'
basename(path) ==
    LET slashes == {i \in 1..Len(path) : path[i] = "/"}
    IN  IF slashes = {} THEN path ELSE SubSeq(path, Max(slashes) + 1, Len(path))

_priority_sort_key(p) == 0 - RankGet(p, 0)

\* first_line of sort_findings
first_line(w) ==
    LET head == Split1(Split1(w, ",")[1], "-")[1]
        n == int(head)
    IN  IF n.ok THEN n.val ELSE 0

\* SortKey on the full path instead of the base name
SortKey_FullPath(x) ==
    <<_priority_sort_key(x[2].priority), x[2].category, x[1], first_line(x[2].impacted_lines)>>

\* the key of sort_findings
SortKey(x) ==
    <<_priority_sort_key(x[2].priority), x[2].category, basename(x[1]), first_line(x[2].impacted_lines)>>

\* ka < kb for two sort keys, as Python compares tuples
KeyLess(ka, kb) ==
    \/ ka[1] < kb[1]
    \/ ka[1] = kb[1] /\ StrLess(ka[2], kb[2])
    \/ ka[1] = kb[1] /\ ka[2] = kb[2] /\ StrLess(ka[3], kb[3])
    \/ ka[1] = kb[1] /\ ka[2] = kb[2] /\ ka[3] = kb[3] /\ ka[4] < kb[4]

\* sorted(list, key): stable, so x goes after every element whose key is not greater
RECURSIVE InsertSorted(_, _)
InsertSorted(list, x) ==
    IF list = <<>> THEN <<x>>
    ELSE IF KeyLess(SortKey(x), SortKey(Head(list))) THEN <<x>> \o list
    ELSE <<Head(list)>> \o InsertSorted(Tail(list), x)

RECURSIVE SortedByKey(_, _)
SortedByKey(acc, list) ==
    IF list = <<>> THEN acc
    ELSE SortedByKey(InsertSorted(acc, Head(list)), Tail(list))

sort_findings(list) == SortedByKey(<<>>, list)

----------------------------------------------------------------------------
(* The syntax tree, for the statements the model writes: _safe_parse.      *)

pass_ == <<"p", "a", "s", "s">>
eval_call == <<"e", "v", "a", "l", "(", "'", "1", "'", ")">>
assert_1 == <<"a", "s", "s", "e", "r", "t", " ", "1">>
pass_todo == <<"p", "a", "s", "s", " ", " ", "#", " ", "t", "o", "d", "o">>
bad_def == <<"d", "e", "f", " ", "f", "(", ":">>
bad_fixme == <<"x", " ", "=", " ", "(", " ", " ", "#", " ", "F", "i", "x", "M", "e">>
bad_path_type ==
    <<"C", ":", "\\", "\\", "x", ".", "t", "y", "p", "e", " ", "=", "=", " ", "3">>

\* the one-line statements of the sample files that parse, and the node ast.parse
\* builds for each
Grammar ==
       (pass_ :>
        [type |-> "Pass"])
    @@ (pass_todo :>
        [type |-> "Pass"])
    @@ (eval_call :>
        [type |-> "Expr", value |-> [type |-> "Call", func |-> [type |-> "Name",
        id |-> "eval", ctx |-> "Load"], args |-> <<[type |-> "Constant",
        constant |-> "str", value |-> "1"]>>, keywords |-> <<>>]])
    @@ (assert_1 :>
        [type |-> "Assert", test |-> [type |-> "Constant", constant |-> "int"]])

\* undefined_name
s_undefined ==
    <<"u", "n", "d", "e", "f", "i", "n", "e", "d", "_", "n", "a", "m", "e">>

\* x = x
s_x_eq_x ==
    <<"x", " ", "=", " ", "x">>

\* len(u)
s_len_u ==
    <<"l", "e", "n", "(", "u", ")">>

\* def f(a): return u
s_def_return_u ==
    <<"d", "e", "f", " ", "f", "(", "a", ")", ":", " ", "r", "e", "t", "u", "r", "n",
      " ", "u">>

\* def g(a=[]): return a
s_def_list_default ==
    <<"d", "e", "f", " ", "g", "(", "a", "=", "[", "]", ")", ":", " ", "r", "e", "t",
      "u", "r", "n", " ", "a">>

\* def g(a=1): return a
s_def_int_default ==
    <<"d", "e", "f", " ", "g", "(", "a", "=", "1", ")", ":", " ", "r", "e", "t", "u",
      "r", "n", " ", "a">>

\* def g(*, k={}): return k
s_def_kwonly_dict_default ==
    <<"d", "e", "f", " ", "g", "(", "*", ",", " ", "k", "=", "{", "}", ")", ":", " ",
      "r", "e", "t", "u", "r", "n", " ", "k">>

\* async def h(a=set()): return a
s_async_def_set_call_default ==
    <<"a", "s", "y", "n", "c", " ", "d", "e", "f", " ", "h", "(", "a", "=", "s", "e",
      "t", "(", ")", ")", ":", " ", "r", "e", "t", "u", "r", "n", " ", "a">>

\* def g(a=[], b={}): return a
s_def_two_mutable_defaults ==
    <<"d", "e", "f", " ", "g", "(", "a", "=", "[", "]", ",", " ", "b", "=", "{", "}",
      ")", ":", " ", "r", "e", "t", "u", "r", "n", " ", "a">>

\* def f(a=undefined_name): pass
s_def_undefined_default ==
    <<"d", "e", "f", " ", "f", "(", "a", "=", "u", "n", "d", "e", "f", "i", "n", "e",
      "d", "_", "n", "a", "m", "e", ")", ":", " ", "p", "a", "s", "s">>

\* class Ab(undefined_name): pass
s_class_undefined_base ==
    <<"c", "l", "a", "s", "s", " ", "A", "b", "(", "u", "n", "d", "e", "f", "i", "n",
      "e", "d", "_", "n", "a", "m", "e", ")", ":", " ", "p", "a", "s", "s">>

\* class Ab: /     u
s_class_body_u ==
    <<"c", "l", "a", "s", "s", " ", "A", "b", ":", "\n", " ", " ", " ", " ", "u">>

\* class Ab: /     def m(self): return u
s_class_method_u ==
    <<"c", "l", "a", "s", "s", " ", "A", "b", ":", "\n", " ", " ", " ", " ", "d",
      "e", "f", " ", "m", "(", "s", "e", "l", "f", ")", ":", " ", "r", "e", "t", "u",
      "r", "n", " ", "u">>

\* if 1: /     def f(): return u
s_if_def_u ==
    <<"i", "f", " ", "1", ":", "\n", " ", " ", " ", " ", "d", "e", "f", " ", "f",
      "(", ")", ":", " ", "r", "e", "t", "u", "r", "n", " ", "u">>

\* def f(): /     def g(): return u
s_def_def_u ==
    <<"d", "e", "f", " ", "f", "(", ")", ":", "\n", " ", " ", " ", " ", "d", "e",
      "f", " ", "g", "(", ")", ":", " ", "r", "e", "t", "u", "r", "n", " ", "u">>

\* try: pass / except: pass
s_except_bare_pass ==
    <<"t", "r", "y", ":", " ", "p", "a", "s", "s", "\n", "e", "x", "c", "e", "p",
      "t", ":", " ", "p", "a", "s", "s">>

\* try: pass / except: ...
s_except_bare_ellipsis ==
    <<"t", "r", "y", ":", " ", "p", "a", "s", "s", "\n", "e", "x", "c", "e", "p",
      "t", ":", " ", ".", ".", ".">>

\* try: pass / except ValueError: raise
s_except_value_raise ==
    <<"t", "r", "y", ":", " ", "p", "a", "s", "s", "\n", "e", "x", "c", "e", "p",
      "t", " ", "V", "a", "l", "u", "e", "E", "r", "r", "o", "r", ":", " ", "r", "a",
      "i", "s", "e">>

\* try: pass / except Exception: pass
s_except_exception_pass ==
    <<"t", "r", "y", ":", " ", "p", "a", "s", "s", "\n", "e", "x", "c", "e", "p",
      "t", " ", "E", "x", "c", "e", "p", "t", "i", "o", "n", ":", " ", "p", "a", "s",
      "s">>

\* try: pass / except: raise
s_except_bare_raise ==
    <<"t", "r", "y", ":", " ", "p", "a", "s", "s", "\n", "e", "x", "c", "e", "p",
      "t", ":", " ", "r", "a", "i", "s", "e">>

\* os.system('x')
s_os_system ==
    <<"o", "s", ".", "s", "y", "s", "t", "e", "m", "(", "'", "x", "'", ")">>

\* subprocess.run('x', shell=True)
s_subprocess_shell_true ==
    <<"s", "u", "b", "p", "r", "o", "c", "e", "s", "s", ".", "r", "u", "n", "(", "'",
      "x", "'", ",", " ", "s", "h", "e", "l", "l", "=", "T", "r", "u", "e", ")">>

\* subprocess.run('x', shell=False)
s_subprocess_shell_false ==
    <<"s", "u", "b", "p", "r", "o", "c", "e", "s", "s", ".", "r", "u", "n", "(", "'",
      "x", "'", ",", " ", "s", "h", "e", "l", "l", "=", "F", "a", "l", "s", "e", ")">>

\* subprocess.run('x')
s_subprocess_no_shell ==
    <<"s", "u", "b", "p", "r", "o", "c", "e", "s", "s", ".", "r", "u", "n", "(", "'",
      "x", "'", ")">>

\* if b: from a import b
s_if_import ==
    <<"i", "f", " ", "b", ":", " ", "f", "r", "o", "m", " ", "a", " ", "i", "m", "p",
      "o", "r", "t", " ", "b">>

\* def f(): from a.b import c; return c
s_def_import ==
    <<"d", "e", "f", " ", "f", "(", ")", ":", " ", "f", "r", "o", "m", " ", "a", ".",
      "b", " ", "i", "m", "p", "o", "r", "t", " ", "c", ";", " ", "r", "e", "t", "u",
      "r", "n", " ", "c">>

\* x = [Thread(x)]
s_thread_list ==
    <<"x", " ", "=", " ", "[", "T", "h", "r", "e", "a", "d", "(", "x", ")", "]">>

\* def f(): /     t = threading.Thread() /     t.start()
s_fn_thread_start ==
    <<"d", "e", "f", " ", "f", "(", ")", ":", "\n", " ", " ", " ", " ", "t", " ",
      "=", " ", "t", "h", "r", "e", "a", "d", "i", "n", "g", ".", "T", "h", "r", "e",
      "a", "d", "(", ")", "\n", " ", " ", " ", " ", "t", ".", "s", "t", "a", "r",
      "t", "(", ")">>

\* def f(): /     t = threading.Thread() /     t.start() /     t.join()
s_fn_thread_join ==
    <<"d", "e", "f", " ", "f", "(", ")", ":", "\n", " ", " ", " ", " ", "t", " ",
      "=", " ", "t", "h", "r", "e", "a", "d", "i", "n", "g", ".", "T", "h", "r", "e",
      "a", "d", "(", ")", "\n", " ", " ", " ", " ", "t", ".", "s", "t", "a", "r",
      "t", "(", ")", "\n", " ", " ", " ", " ", "t", ".", "j", "o", "i", "n", "(",
      ")">>

\* def f(): /     if 1: /         t = threading.Thread() /         t.start()
s_fn_thread_if ==
    <<"d", "e", "f", " ", "f", "(", ")", ":", "\n", " ", " ", " ", " ", "i", "f",
      " ", "1", ":", "\n", " ", " ", " ", " ", " ", " ", " ", " ", "t", " ", "=",
      " ", "t", "h", "r", "e", "a", "d", "i", "n", "g", ".", "T", "h", "r", "e", "a",
      "d", "(", ")", "\n", " ", " ", " ", " ", " ", " ", " ", " ", "t", ".", "s",
      "t", "a", "r", "t", "(", ")">>

\* def f(): /     if 1: /         if 1: /             t = threading.Thread() /     t.start()
s_fn_thread_deep ==
    <<"d", "e", "f", " ", "f", "(", ")", ":", "\n", " ", " ", " ", " ", "i", "f",
      " ", "1", ":", "\n", " ", " ", " ", " ", " ", " ", " ", " ", "i", "f", " ",
      "1", ":", "\n", " ", " ", " ", " ", " ", " ", " ", " ", " ", " ", " ", " ",
      "t", " ", "=", " ", "t", "h", "r", "e", "a", "d", "i", "n", "g", ".", "T", "h",
      "r", "e", "a", "d", "(", ")", "\n", " ", " ", " ", " ", "t", ".", "s", "t",
      "a", "r", "t", "(", ")">>

\* def f(): /     try: /         p = multiprocessing.Process() /         p.start() /     except ValueError: raise
s_fn_proc_try ==
    <<"d", "e", "f", " ", "f", "(", ")", ":", "\n", " ", " ", " ", " ", "t", "r",
      "y", ":", "\n", " ", " ", " ", " ", " ", " ", " ", " ", "p", " ", "=", " ",
      "m", "u", "l", "t", "i", "p", "r", "o", "c", "e", "s", "s", "i", "n", "g", ".",
      "P", "r", "o", "c", "e", "s", "s", "(", ")", "\n", " ", " ", " ", " ", " ",
      " ", " ", " ", "p", ".", "s", "t", "a", "r", "t", "(", ")", "\n", " ", " ",
      " ", " ", "e", "x", "c", "e", "p", "t", " ", "V", "a", "l", "u", "e", "E", "r",
      "r", "o", "r", ":", " ", "r", "a", "i", "s", "e">>

\* threading.Thread().start()
s_chain ==
    <<"t", "h", "r", "e", "a", "d", "i", "n", "g", ".", "T", "h", "r", "e", "a", "d",
      "(", ")", ".", "s", "t", "a", "r", "t", "(", ")">>

\* multiprocessing.Pool()
s_pool ==
    <<"m", "u", "l", "t", "i", "p", "r", "o", "c", "e", "s", "s", "i", "n", "g", ".",
      "P", "o", "o", "l", "(", ")">>

\* def f(): multiprocessing.Pool()
s_fn_pool ==
    <<"d", "e", "f", " ", "f", "(", ")", ":", " ", "m", "u", "l", "t", "i", "p", "r",
      "o", "c", "e", "s", "s", "i", "n", "g", ".", "P", "o", "o", "l", "(", ")">>

\* if __name__ == '__main__': multiprocessing.Pool()
s_main_pool ==
    <<"i", "f", " ", "_", "_", "n", "a", "m", "e", "_", "_", " ", "=", "=", " ", "'",
      "_", "_", "m", "a", "i", "n", "_", "_", "'", ":", " ", "m", "u", "l", "t", "i",
      "p", "r", "o", "c", "e", "s", "s", "i", "n", "g", ".", "P", "o", "o", "l", "(",
      ")">>

\* if 1: /     def g(a): pass /     def f(): return a
s_if_param_sibling ==
    <<"i", "f", " ", "1", ":", "\n", " ", " ", " ", " ", "d", "e", "f", " ", "g",
      "(", "a", ")", ":", " ", "p", "a", "s", "s", "\n", " ", " ", " ", " ", "d",
      "e", "f", " ", "f", "(", ")", ":", " ", "r", "e", "t", "u", "r", "n", " ", "a">>

\* def f(a): return a and (a or (a and (a or (a and (a or (a and (a or (a and (a or a)))))))))
s_cplx_11 ==
    <<"d", "e", "f", " ", "f", "(", "a", ")", ":", " ", "r", "e", "t", "u", "r", "n",
      " ", "a", " ", "a", "n", "d", " ", "(", "a", " ", "o", "r", " ", "(", "a", " ",
      "a", "n", "d", " ", "(", "a", " ", "o", "r", " ", "(", "a", " ", "a", "n", "d",
      " ", "(", "a", " ", "o", "r", " ", "(", "a", " ", "a", "n", "d", " ", "(", "a",
      " ", "o", "r", " ", "(", "a", " ", "a", "n", "d", " ", "(", "a", " ", "o", "r",
      " ", "a", ")", ")", ")", ")", ")", ")", ")", ")", ")">>

\* def f(a): return a and (a or (a and (a or (a and (a or (a and (a or (a and a))))))))
s_cplx_10 ==
    <<"d", "e", "f", " ", "f", "(", "a", ")", ":", " ", "r", "e", "t", "u", "r", "n",
      " ", "a", " ", "a", "n", "d", " ", "(", "a", " ", "o", "r", " ", "(", "a", " ",
      "a", "n", "d", " ", "(", "a", " ", "o", "r", " ", "(", "a", " ", "a", "n", "d",
      " ", "(", "a", " ", "o", "r", " ", "(", "a", " ", "a", "n", "d", " ", "(", "a",
      " ", "o", "r", " ", "(", "a", " ", "a", "n", "d", " ", "a", ")", ")", ")", ")",
      ")", ")", ")", ")">>

\* def f(a): /     try: return a and (a or (a and (a or (a and (a or (a and (a or a))))))) /     except ValueError: raise /     except TypeError: raise
s_cplx_try ==
    <<"d", "e", "f", " ", "f", "(", "a", ")", ":", "\n", " ", " ", " ", " ", "t",
      "r", "y", ":", " ", "r", "e", "t", "u", "r", "n", " ", "a", " ", "a", "n", "d",
      " ", "(", "a", " ", "o", "r", " ", "(", "a", " ", "a", "n", "d", " ", "(", "a",
      " ", "o", "r", " ", "(", "a", " ", "a", "n", "d", " ", "(", "a", " ", "o", "r",
      " ", "(", "a", " ", "a", "n", "d", " ", "(", "a", " ", "o", "r", " ", "a", ")",
      ")", ")", ")", ")", ")", ")", "\n", " ", " ", " ", " ", "e", "x", "c", "e",
      "p", "t", " ", "V", "a", "l", "u", "e", "E", "r", "r", "o", "r", ":", " ", "r",
      "a", "i", "s", "e", "\n", " ", " ", " ", " ", "e", "x", "c", "e", "p", "t",
      " ", "T", "y", "p", "e", "E", "r", "r", "o", "r", ":", " ", "r", "a", "i", "s",
      "e">>

\* the statements of one or more lines that parse, and the node ast.parse builds for
\* each; lineno is counted from the first line of the statement and left out on
\* that line; the ctx nodes and the fields no rule modelled below reads are left out
BlockGrammar ==
       (s_undefined :>
        [type |-> "Expr", value |-> [type |-> "Name", id |-> "undefined_name",
        ctx |-> "Load"]])
    @@ (s_x_eq_x :>
        [type |-> "Assign", targets |-> <<[type |-> "Name", id |-> "x",
        ctx |-> "Store"]>>, value |-> [type |-> "Name", id |-> "x", ctx |-> "Load"]])
    @@ (s_len_u :>
        [type |-> "Expr", value |-> [type |-> "Call", func |-> [type |-> "Name",
        id |-> "len", ctx |-> "Load"], args |-> <<[type |-> "Name", id |-> "u",
        ctx |-> "Load"]>>, keywords |-> <<>>]])
    @@ (s_def_return_u :>
        [type |-> "FunctionDef", end_lineno |-> 0, name |-> "f",
        args |-> [type |-> "arguments", args |-> <<[type |-> "arg", arg |-> "a"]>>,
        vararg |-> NoTree, kwonlyargs |-> <<>>, kw_defaults |-> <<>>,
        kwarg |-> NoTree, defaults |-> <<>>], body |-> <<[type |-> "Return",
        value |-> [type |-> "Name", id |-> "u", ctx |-> "Load"]]>>])
    @@ (s_def_list_default :>
        [type |-> "FunctionDef", end_lineno |-> 0, name |-> "g",
        args |-> [type |-> "arguments", args |-> <<[type |-> "arg", arg |-> "a"]>>,
        vararg |-> NoTree, kwonlyargs |-> <<>>, kw_defaults |-> <<>>,
        kwarg |-> NoTree, defaults |-> <<[type |-> "List", elts |-> <<>>]>>],
        body |-> <<[type |-> "Return", value |-> [type |-> "Name", id |-> "a",
        ctx |-> "Load"]]>>])
    @@ (s_def_int_default :>
        [type |-> "FunctionDef", end_lineno |-> 0, name |-> "g",
        args |-> [type |-> "arguments", args |-> <<[type |-> "arg", arg |-> "a"]>>,
        vararg |-> NoTree, kwonlyargs |-> <<>>, kw_defaults |-> <<>>,
        kwarg |-> NoTree, defaults |-> <<[type |-> "Constant",
        constant |-> "int"]>>], body |-> <<[type |-> "Return",
        value |-> [type |-> "Name", id |-> "a", ctx |-> "Load"]]>>])
    @@ (s_def_kwonly_dict_default :>
        [type |-> "FunctionDef", end_lineno |-> 0, name |-> "g",
        args |-> [type |-> "arguments", args |-> <<>>, vararg |-> NoTree,
        kwonlyargs |-> <<[type |-> "arg", arg |-> "k"]>>,
        kw_defaults |-> <<[type |-> "Dict"]>>, kwarg |-> NoTree, defaults |-> <<>>],
        body |-> <<[type |-> "Return", value |-> [type |-> "Name", id |-> "k",
        ctx |-> "Load"]]>>])
    @@ (s_async_def_set_call_default :>
        [type |-> "AsyncFunctionDef", end_lineno |-> 0, name |-> "h",
        args |-> [type |-> "arguments", args |-> <<[type |-> "arg", arg |-> "a"]>>,
        vararg |-> NoTree, kwonlyargs |-> <<>>, kw_defaults |-> <<>>,
        kwarg |-> NoTree, defaults |-> <<[type |-> "Call", func |-> [type |-> "Name",
        id |-> "set", ctx |-> "Load"], args |-> <<>>, keywords |-> <<>>]>>],
        body |-> <<[type |-> "Return", value |-> [type |-> "Name", id |-> "a",
        ctx |-> "Load"]]>>])
    @@ (s_def_two_mutable_defaults :>
        [type |-> "FunctionDef", end_lineno |-> 0, name |-> "g",
        args |-> [type |-> "arguments", args |-> <<[type |-> "arg", arg |-> "a"],
        [type |-> "arg", arg |-> "b"]>>, vararg |-> NoTree, kwonlyargs |-> <<>>,
        kw_defaults |-> <<>>, kwarg |-> NoTree, defaults |-> <<[type |-> "List",
        elts |-> <<>>], [type |-> "Dict"]>>], body |-> <<[type |-> "Return",
        value |-> [type |-> "Name", id |-> "a", ctx |-> "Load"]]>>])
    @@ (s_def_undefined_default :>
        [type |-> "FunctionDef", end_lineno |-> 0, name |-> "f",
        args |-> [type |-> "arguments", args |-> <<[type |-> "arg", arg |-> "a"]>>,
        vararg |-> NoTree, kwonlyargs |-> <<>>, kw_defaults |-> <<>>,
        kwarg |-> NoTree, defaults |-> <<[type |-> "Name", id |-> "undefined_name",
        ctx |-> "Load"]>>], body |-> <<[type |-> "Pass"]>>])
    @@ (s_class_undefined_base :>
        [type |-> "ClassDef", end_lineno |-> 0, name |-> "Ab",
        bases |-> <<[type |-> "Name", id |-> "undefined_name", ctx |-> "Load"]>>,
        body |-> <<[type |-> "Pass"]>>])
    @@ (s_class_body_u :>
        [type |-> "ClassDef", end_lineno |-> 1, name |-> "Ab", bases |-> <<>>,
        body |-> <<[type |-> "Expr", lineno |-> 1, value |-> [type |-> "Name",
        lineno |-> 1, id |-> "u", ctx |-> "Load"]]>>])
    @@ (s_class_method_u :>
        [type |-> "ClassDef", end_lineno |-> 1, name |-> "Ab", bases |-> <<>>,
        body |-> <<[type |-> "FunctionDef", lineno |-> 1, end_lineno |-> 1,
        name |-> "m", args |-> [type |-> "arguments", args |-> <<[type |-> "arg",
        lineno |-> 1, arg |-> "self"]>>, vararg |-> NoTree, kwonlyargs |-> <<>>,
        kw_defaults |-> <<>>, kwarg |-> NoTree, defaults |-> <<>>],
        body |-> <<[type |-> "Return", lineno |-> 1, value |-> [type |-> "Name",
        lineno |-> 1, id |-> "u", ctx |-> "Load"]]>>]>>])
    @@ (s_if_def_u :>
        [type |-> "If", test |-> [type |-> "Constant", constant |-> "int"],
        body |-> <<[type |-> "FunctionDef", lineno |-> 1, end_lineno |-> 1,
        name |-> "f", args |-> [type |-> "arguments", args |-> <<>>,
        vararg |-> NoTree, kwonlyargs |-> <<>>, kw_defaults |-> <<>>,
        kwarg |-> NoTree, defaults |-> <<>>], body |-> <<[type |-> "Return",
        lineno |-> 1, value |-> [type |-> "Name", lineno |-> 1, id |-> "u",
        ctx |-> "Load"]]>>]>>, orelse |-> <<>>])
    @@ (s_def_def_u :>
        [type |-> "FunctionDef", end_lineno |-> 1, name |-> "f",
        args |-> [type |-> "arguments", args |-> <<>>, vararg |-> NoTree,
        kwonlyargs |-> <<>>, kw_defaults |-> <<>>, kwarg |-> NoTree,
        defaults |-> <<>>], body |-> <<[type |-> "FunctionDef", lineno |-> 1,
        end_lineno |-> 1, name |-> "g", args |-> [type |-> "arguments",
        args |-> <<>>, vararg |-> NoTree, kwonlyargs |-> <<>>, kw_defaults |-> <<>>,
        kwarg |-> NoTree, defaults |-> <<>>], body |-> <<[type |-> "Return",
        lineno |-> 1, value |-> [type |-> "Name", lineno |-> 1, id |-> "u",
        ctx |-> "Load"]]>>]>>])
    @@ (s_except_bare_pass :>
        [type |-> "Try", body |-> <<[type |-> "Pass"]>>,
        handlers |-> <<[type |-> "ExceptHandler", lineno |-> 1, exc_type |-> NoTree,
        body |-> <<[type |-> "Pass", lineno |-> 1]>>]>>])
    @@ (s_except_bare_ellipsis :>
        [type |-> "Try", body |-> <<[type |-> "Pass"]>>,
        handlers |-> <<[type |-> "ExceptHandler", lineno |-> 1, exc_type |-> NoTree,
        body |-> <<[type |-> "Expr", lineno |-> 1, value |-> [type |-> "Constant",
        lineno |-> 1, constant |-> "Ellipsis"]]>>]>>])
    @@ (s_except_value_raise :>
        [type |-> "Try", body |-> <<[type |-> "Pass"]>>,
        handlers |-> <<[type |-> "ExceptHandler", lineno |-> 1,
        exc_type |-> [type |-> "Name", lineno |-> 1, id |-> "ValueError",
        ctx |-> "Load"], body |-> <<[type |-> "Raise", lineno |-> 1]>>]>>])
    @@ (s_except_exception_pass :>
        [type |-> "Try", body |-> <<[type |-> "Pass"]>>,
        handlers |-> <<[type |-> "ExceptHandler", lineno |-> 1,
        exc_type |-> [type |-> "Name", lineno |-> 1, id |-> "Exception",
        ctx |-> "Load"], body |-> <<[type |-> "Pass", lineno |-> 1]>>]>>])
    @@ (s_except_bare_raise :>
        [type |-> "Try", body |-> <<[type |-> "Pass"]>>,
        handlers |-> <<[type |-> "ExceptHandler", lineno |-> 1, exc_type |-> NoTree,
        body |-> <<[type |-> "Raise", lineno |-> 1]>>]>>])
    @@ (s_os_system :>
        [type |-> "Expr", value |-> [type |-> "Call", func |-> [type |-> "Attribute",
        value |-> [type |-> "Name", id |-> "os", ctx |-> "Load"], attr |-> "system"],
        args |-> <<[type |-> "Constant", constant |-> "str", value |-> "x"]>>,
        keywords |-> <<>>]])
    @@ (s_subprocess_shell_true :>
        [type |-> "Expr", value |-> [type |-> "Call", func |-> [type |-> "Attribute",
        value |-> [type |-> "Name", id |-> "subprocess", ctx |-> "Load"],
        attr |-> "run"], args |-> <<[type |-> "Constant", constant |-> "str",
        value |-> "x"]>>, keywords |-> <<[type |-> "keyword", arg |-> "shell",
        value |-> [type |-> "Constant", constant |-> "True"]]>>]])
    @@ (s_subprocess_shell_false :>
        [type |-> "Expr", value |-> [type |-> "Call", func |-> [type |-> "Attribute",
        value |-> [type |-> "Name", id |-> "subprocess", ctx |-> "Load"],
        attr |-> "run"], args |-> <<[type |-> "Constant", constant |-> "str",
        value |-> "x"]>>, keywords |-> <<[type |-> "keyword", arg |-> "shell",
        value |-> [type |-> "Constant", constant |-> "False"]]>>]])
    @@ (s_subprocess_no_shell :>
        [type |-> "Expr", value |-> [type |-> "Call", func |-> [type |-> "Attribute",
        value |-> [type |-> "Name", id |-> "subprocess", ctx |-> "Load"],
        attr |-> "run"], args |-> <<[type |-> "Constant", constant |-> "str",
        value |-> "x"]>>, keywords |-> <<>>]])
    @@ (s_if_import :>
        [type |-> "If", test |-> [type |-> "Name", id |-> "b", ctx |-> "Load"],
        body |-> <<[type |-> "ImportFrom", module |-> <<"a">>,
        names |-> <<[type |-> "alias", name |-> "b"]>>, level |-> 0]>>,
        orelse |-> <<>>])
    @@ (s_def_import :>
        [type |-> "FunctionDef", end_lineno |-> 0, name |-> "f",
        args |-> [type |-> "arguments", args |-> <<>>, vararg |-> NoTree,
        kwonlyargs |-> <<>>, kw_defaults |-> <<>>, kwarg |-> NoTree,
        defaults |-> <<>>], body |-> <<[type |-> "ImportFrom", module |-> <<"a", ".",
        "b">>, names |-> <<[type |-> "alias", name |-> "c"]>>, level |-> 0],
        [type |-> "Return", value |-> [type |-> "Name", id |-> "c",
        ctx |-> "Load"]]>>])
    @@ (s_thread_list :>
        [type |-> "Assign", targets |-> <<[type |-> "Name", id |-> "x",
        ctx |-> "Store"]>>, value |-> [type |-> "List", elts |-> <<[type |-> "Call",
        func |-> [type |-> "Name", id |-> "Thread", ctx |-> "Load"],
        args |-> <<[type |-> "Name", id |-> "x", ctx |-> "Load"]>>,
        keywords |-> <<>>]>>]])
    @@ (s_fn_thread_start :>
        [type |-> "FunctionDef", end_lineno |-> 2, name |-> "f",
        args |-> [type |-> "arguments", args |-> <<>>, vararg |-> NoTree,
        kwonlyargs |-> <<>>, kw_defaults |-> <<>>, kwarg |-> NoTree,
        defaults |-> <<>>], body |-> <<[type |-> "Assign", lineno |-> 1,
        targets |-> <<[type |-> "Name", lineno |-> 1, id |-> "t", ctx |-> "Store"]>>,
        value |-> [type |-> "Call", lineno |-> 1, func |-> [type |-> "Attribute",
        lineno |-> 1, value |-> [type |-> "Name", lineno |-> 1, id |-> "threading",
        ctx |-> "Load"], attr |-> "Thread"], args |-> <<>>, keywords |-> <<>>]],
        [type |-> "Expr", lineno |-> 2, value |-> [type |-> "Call", lineno |-> 2,
        func |-> [type |-> "Attribute", lineno |-> 2, value |-> [type |-> "Name",
        lineno |-> 2, id |-> "t", ctx |-> "Load"], attr |-> "start"], args |-> <<>>,
        keywords |-> <<>>]]>>])
    @@ (s_fn_thread_join :>
        [type |-> "FunctionDef", end_lineno |-> 3, name |-> "f",
        args |-> [type |-> "arguments", args |-> <<>>, vararg |-> NoTree,
        kwonlyargs |-> <<>>, kw_defaults |-> <<>>, kwarg |-> NoTree,
        defaults |-> <<>>], body |-> <<[type |-> "Assign", lineno |-> 1,
        targets |-> <<[type |-> "Name", lineno |-> 1, id |-> "t", ctx |-> "Store"]>>,
        value |-> [type |-> "Call", lineno |-> 1, func |-> [type |-> "Attribute",
        lineno |-> 1, value |-> [type |-> "Name", lineno |-> 1, id |-> "threading",
        ctx |-> "Load"], attr |-> "Thread"], args |-> <<>>, keywords |-> <<>>]],
        [type |-> "Expr", lineno |-> 2, value |-> [type |-> "Call", lineno |-> 2,
        func |-> [type |-> "Attribute", lineno |-> 2, value |-> [type |-> "Name",
        lineno |-> 2, id |-> "t", ctx |-> "Load"], attr |-> "start"], args |-> <<>>,
        keywords |-> <<>>]], [type |-> "Expr", lineno |-> 3,
        value |-> [type |-> "Call", lineno |-> 3, func |-> [type |-> "Attribute",
        lineno |-> 3, value |-> [type |-> "Name", lineno |-> 3, id |-> "t",
        ctx |-> "Load"], attr |-> "join"], args |-> <<>>, keywords |-> <<>>]]>>])
    @@ (s_fn_thread_if :>
        [type |-> "FunctionDef", end_lineno |-> 3, name |-> "f",
        args |-> [type |-> "arguments", args |-> <<>>, vararg |-> NoTree,
        kwonlyargs |-> <<>>, kw_defaults |-> <<>>, kwarg |-> NoTree,
        defaults |-> <<>>], body |-> <<[type |-> "If", lineno |-> 1,
        test |-> [type |-> "Constant", lineno |-> 1, constant |-> "int"],
        body |-> <<[type |-> "Assign", lineno |-> 2, targets |-> <<[type |-> "Name",
        lineno |-> 2, id |-> "t", ctx |-> "Store"]>>, value |-> [type |-> "Call",
        lineno |-> 2, func |-> [type |-> "Attribute", lineno |-> 2,
        value |-> [type |-> "Name", lineno |-> 2, id |-> "threading",
        ctx |-> "Load"], attr |-> "Thread"], args |-> <<>>, keywords |-> <<>>]],
        [type |-> "Expr", lineno |-> 3, value |-> [type |-> "Call", lineno |-> 3,
        func |-> [type |-> "Attribute", lineno |-> 3, value |-> [type |-> "Name",
        lineno |-> 3, id |-> "t", ctx |-> "Load"], attr |-> "start"], args |-> <<>>,
        keywords |-> <<>>]]>>, orelse |-> <<>>]>>])
    @@ (s_fn_thread_deep :>
        [type |-> "FunctionDef", end_lineno |-> 4, name |-> "f",
        args |-> [type |-> "arguments", args |-> <<>>, vararg |-> NoTree,
        kwonlyargs |-> <<>>, kw_defaults |-> <<>>, kwarg |-> NoTree,
        defaults |-> <<>>], body |-> <<[type |-> "If", lineno |-> 1,
        test |-> [type |-> "Constant", lineno |-> 1, constant |-> "int"],
        body |-> <<[type |-> "If", lineno |-> 2, test |-> [type |-> "Constant",
        lineno |-> 2, constant |-> "int"], body |-> <<[type |-> "Assign",
        lineno |-> 3, targets |-> <<[type |-> "Name", lineno |-> 3, id |-> "t",
        ctx |-> "Store"]>>, value |-> [type |-> "Call", lineno |-> 3,
        func |-> [type |-> "Attribute", lineno |-> 3, value |-> [type |-> "Name",
        lineno |-> 3, id |-> "threading", ctx |-> "Load"], attr |-> "Thread"],
        args |-> <<>>, keywords |-> <<>>]]>>, orelse |-> <<>>]>>, orelse |-> <<>>],
        [type |-> "Expr", lineno |-> 4, value |-> [type |-> "Call", lineno |-> 4,
        func |-> [type |-> "Attribute", lineno |-> 4, value |-> [type |-> "Name",
        lineno |-> 4, id |-> "t", ctx |-> "Load"], attr |-> "start"], args |-> <<>>,
        keywords |-> <<>>]]>>])
    @@ (s_fn_proc_try :>
        [type |-> "FunctionDef", end_lineno |-> 4, name |-> "f",
        args |-> [type |-> "arguments", args |-> <<>>, vararg |-> NoTree,
        kwonlyargs |-> <<>>, kw_defaults |-> <<>>, kwarg |-> NoTree,
        defaults |-> <<>>], body |-> <<[type |-> "Try", lineno |-> 1,
        body |-> <<[type |-> "Assign", lineno |-> 2, targets |-> <<[type |-> "Name",
        lineno |-> 2, id |-> "p", ctx |-> "Store"]>>, value |-> [type |-> "Call",
        lineno |-> 2, func |-> [type |-> "Attribute", lineno |-> 2,
        value |-> [type |-> "Name", lineno |-> 2, id |-> "multiprocessing",
        ctx |-> "Load"], attr |-> "Process"], args |-> <<>>, keywords |-> <<>>]],
        [type |-> "Expr", lineno |-> 3, value |-> [type |-> "Call", lineno |-> 3,
        func |-> [type |-> "Attribute", lineno |-> 3, value |-> [type |-> "Name",
        lineno |-> 3, id |-> "p", ctx |-> "Load"], attr |-> "start"], args |-> <<>>,
        keywords |-> <<>>]]>>, handlers |-> <<[type |-> "ExceptHandler",
        lineno |-> 4, exc_type |-> [type |-> "Name", lineno |-> 4,
        id |-> "ValueError", ctx |-> "Load"], body |-> <<[type |-> "Raise",
        lineno |-> 4]>>]>>]>>])
    @@ (s_chain :>
        [type |-> "Expr", value |-> [type |-> "Call", func |-> [type |-> "Attribute",
        value |-> [type |-> "Call", func |-> [type |-> "Attribute",
        value |-> [type |-> "Name", id |-> "threading", ctx |-> "Load"],
        attr |-> "Thread"], args |-> <<>>, keywords |-> <<>>], attr |-> "start"],
        args |-> <<>>, keywords |-> <<>>]])
    @@ (s_pool :>
        [type |-> "Expr", value |-> [type |-> "Call", func |-> [type |-> "Attribute",
        value |-> [type |-> "Name", id |-> "multiprocessing", ctx |-> "Load"],
        attr |-> "Pool"], args |-> <<>>, keywords |-> <<>>]])
    @@ (s_fn_pool :>
        [type |-> "FunctionDef", end_lineno |-> 0, name |-> "f",
        args |-> [type |-> "arguments", args |-> <<>>, vararg |-> NoTree,
        kwonlyargs |-> <<>>, kw_defaults |-> <<>>, kwarg |-> NoTree,
        defaults |-> <<>>], body |-> <<[type |-> "Expr", value |-> [type |-> "Call",
        func |-> [type |-> "Attribute", value |-> [type |-> "Name",
        id |-> "multiprocessing", ctx |-> "Load"], attr |-> "Pool"], args |-> <<>>,
        keywords |-> <<>>]]>>])
    @@ (s_main_pool :>
        [type |-> "If", test |-> [type |-> "Compare", left |-> [type |-> "Name",
        id |-> "__name__", ctx |-> "Load"], ops |-> <<"Eq">>,
        comparators |-> <<[type |-> "Constant", constant |-> "str",
        value |-> "__main__"]>>], body |-> <<[type |-> "Expr",
        value |-> [type |-> "Call", func |-> [type |-> "Attribute",
        value |-> [type |-> "Name", id |-> "multiprocessing", ctx |-> "Load"],
        attr |-> "Pool"], args |-> <<>>, keywords |-> <<>>]]>>, orelse |-> <<>>])
    @@ (s_if_param_sibling :>
        [type |-> "If", test |-> [type |-> "Constant", constant |-> "int"],
        body |-> <<[type |-> "FunctionDef", lineno |-> 1, end_lineno |-> 1,
        name |-> "g", args |-> [type |-> "arguments", args |-> <<[type |-> "arg",
        lineno |-> 1, arg |-> "a"]>>, vararg |-> NoTree, kwonlyargs |-> <<>>,
        kw_defaults |-> <<>>, kwarg |-> NoTree, defaults |-> <<>>],
        body |-> <<[type |-> "Pass", lineno |-> 1]>>], [type |-> "FunctionDef",
        lineno |-> 2, end_lineno |-> 2, name |-> "f", args |-> [type |-> "arguments",
        args |-> <<>>, vararg |-> NoTree, kwonlyargs |-> <<>>, kw_defaults |-> <<>>,
        kwarg |-> NoTree, defaults |-> <<>>], body |-> <<[type |-> "Return",
        lineno |-> 2, value |-> [type |-> "Name", lineno |-> 2, id |-> "a",
        ctx |-> "Load"]]>>]>>, orelse |-> <<>>])
    @@ (s_cplx_11 :>
        [type |-> "FunctionDef", end_lineno |-> 0, name |-> "f",
        args |-> [type |-> "arguments", args |-> <<[type |-> "arg", arg |-> "a"]>>,
        vararg |-> NoTree, kwonlyargs |-> <<>>, kw_defaults |-> <<>>,
        kwarg |-> NoTree, defaults |-> <<>>], body |-> <<[type |-> "Return",
        value |-> [type |-> "BoolOp", op |-> "And", values |-> <<[type |-> "Name",
        id |-> "a", ctx |-> "Load"], [type |-> "BoolOp", op |-> "Or",
        values |-> <<[type |-> "Name", id |-> "a", ctx |-> "Load"],
        [type |-> "BoolOp", op |-> "And", values |-> <<[type |-> "Name", id |-> "a",
        ctx |-> "Load"], [type |-> "BoolOp", op |-> "Or",
        values |-> <<[type |-> "Name", id |-> "a", ctx |-> "Load"],
        [type |-> "BoolOp", op |-> "And", values |-> <<[type |-> "Name", id |-> "a",
        ctx |-> "Load"], [type |-> "BoolOp", op |-> "Or",
        values |-> <<[type |-> "Name", id |-> "a", ctx |-> "Load"],
        [type |-> "BoolOp", op |-> "And", values |-> <<[type |-> "Name", id |-> "a",
        ctx |-> "Load"], [type |-> "BoolOp", op |-> "Or",
        values |-> <<[type |-> "Name", id |-> "a", ctx |-> "Load"],
        [type |-> "BoolOp", op |-> "And", values |-> <<[type |-> "Name", id |-> "a",
        ctx |-> "Load"], [type |-> "BoolOp", op |-> "Or",
        values |-> <<[type |-> "Name", id |-> "a", ctx |-> "Load"], [type |-> "Name",
        id |-> "a", ctx |-> "Load"]>>]>>]>>]>>]>>]>>]>>]>>]>>]>>]]>>])
    @@ (s_cplx_10 :>
        [type |-> "FunctionDef", end_lineno |-> 0, name |-> "f",
        args |-> [type |-> "arguments", args |-> <<[type |-> "arg", arg |-> "a"]>>,
        vararg |-> NoTree, kwonlyargs |-> <<>>, kw_defaults |-> <<>>,
        kwarg |-> NoTree, defaults |-> <<>>], body |-> <<[type |-> "Return",
        value |-> [type |-> "BoolOp", op |-> "And", values |-> <<[type |-> "Name",
        id |-> "a", ctx |-> "Load"], [type |-> "BoolOp", op |-> "Or",
        values |-> <<[type |-> "Name", id |-> "a", ctx |-> "Load"],
        [type |-> "BoolOp", op |-> "And", values |-> <<[type |-> "Name", id |-> "a",
        ctx |-> "Load"], [type |-> "BoolOp", op |-> "Or",
        values |-> <<[type |-> "Name", id |-> "a", ctx |-> "Load"],
        [type |-> "BoolOp", op |-> "And", values |-> <<[type |-> "Name", id |-> "a",
        ctx |-> "Load"], [type |-> "BoolOp", op |-> "Or",
        values |-> <<[type |-> "Name", id |-> "a", ctx |-> "Load"],
        [type |-> "BoolOp", op |-> "And", values |-> <<[type |-> "Name", id |-> "a",
        ctx |-> "Load"], [type |-> "BoolOp", op |-> "Or",
        values |-> <<[type |-> "Name", id |-> "a", ctx |-> "Load"],
        [type |-> "BoolOp", op |-> "And", values |-> <<[type |-> "Name", id |-> "a",
        ctx |-> "Load"], [type |-> "Name", id |-> "a",
        ctx |-> "Load"]>>]>>]>>]>>]>>]>>]>>]>>]>>]]>>])
    @@ (s_cplx_try :>
        [type |-> "FunctionDef", end_lineno |-> 3, name |-> "f",
        args |-> [type |-> "arguments", args |-> <<[type |-> "arg", arg |-> "a"]>>,
        vararg |-> NoTree, kwonlyargs |-> <<>>, kw_defaults |-> <<>>,
        kwarg |-> NoTree, defaults |-> <<>>], body |-> <<[type |-> "Try",
        lineno |-> 1, body |-> <<[type |-> "Return", lineno |-> 1,
        value |-> [type |-> "BoolOp", lineno |-> 1, op |-> "And",
        values |-> <<[type |-> "Name", lineno |-> 1, id |-> "a", ctx |-> "Load"],
        [type |-> "BoolOp", lineno |-> 1, op |-> "Or", values |-> <<[type |-> "Name",
        lineno |-> 1, id |-> "a", ctx |-> "Load"], [type |-> "BoolOp", lineno |-> 1,
        op |-> "And", values |-> <<[type |-> "Name", lineno |-> 1, id |-> "a",
        ctx |-> "Load"], [type |-> "BoolOp", lineno |-> 1, op |-> "Or",
        values |-> <<[type |-> "Name", lineno |-> 1, id |-> "a", ctx |-> "Load"],
        [type |-> "BoolOp", lineno |-> 1, op |-> "And",
        values |-> <<[type |-> "Name", lineno |-> 1, id |-> "a", ctx |-> "Load"],
        [type |-> "BoolOp", lineno |-> 1, op |-> "Or", values |-> <<[type |-> "Name",
        lineno |-> 1, id |-> "a", ctx |-> "Load"], [type |-> "BoolOp", lineno |-> 1,
        op |-> "And", values |-> <<[type |-> "Name", lineno |-> 1, id |-> "a",
        ctx |-> "Load"], [type |-> "BoolOp", lineno |-> 1, op |-> "Or",
        values |-> <<[type |-> "Name", lineno |-> 1, id |-> "a", ctx |-> "Load"],
        [type |-> "Name", lineno |-> 1, id |-> "a",
        ctx |-> "Load"]>>]>>]>>]>>]>>]>>]>>]>>]]>>,
        handlers |-> <<[type |-> "ExceptHandler", lineno |-> 2,
        exc_type |-> [type |-> "Name", lineno |-> 2, id |-> "ValueError",
        ctx |-> "Load"], body |-> <<[type |-> "Raise", lineno |-> 2]>>],
        [type |-> "ExceptHandler", lineno |-> 3, exc_type |-> [type |-> "Name",
        lineno |-> 3, id |-> "TypeError", ctx |-> "Load"],
        body |-> <<[type |-> "Raise", lineno |-> 3]>>]>>]>>])

\* every statement the model parses
Statements == Grammar @@ BlockGrammar

\* the identifiers of the statements, as text
IdChars ==
    [Ab |-> <<"A", "b">>, BaseException |-> <<"B", "a", "s", "e", "E", "x", "c", "e",
     "p", "t", "i", "o", "n">>, Exception |-> <<"E", "x", "c", "e", "p", "t", "i",
     "o", "n">>, Thread |-> <<"T", "h", "r", "e", "a", "d">>, TypeError |-> <<"T",
     "y", "p", "e", "E", "r", "r", "o", "r">>, ValueError |-> <<"V", "a", "l", "u",
     "e", "E", "r", "r", "o", "r">>, __name__ |-> <<"_", "_", "n", "a", "m", "e",
     "_", "_">>, a |-> <<"a">>, b |-> <<"b">>, c |-> <<"c">>, dict |-> <<"d", "i",
     "c", "t">>, eval |-> <<"e", "v", "a", "l">>, exec |-> <<"e", "x", "e", "c">>,
     f |-> <<"f">>, g |-> <<"g">>, h |-> <<"h">>, k |-> <<"k">>, len |-> <<"l", "e",
     "n">>, list |-> <<"l", "i", "s", "t">>, m |-> <<"m">>,
     multiprocessing |-> <<"m", "u", "l", "t", "i", "p", "r", "o", "c", "e", "s",
     "s", "i", "n", "g">>, os |-> <<"o", "s">>, p |-> <<"p">>, pickle |-> <<"p", "i",
     "c", "k", "l", "e">>, print |-> <<"p", "r", "i", "n", "t">>, self |-> <<"s",
     "e", "l", "f">>, set |-> <<"s", "e", "t">>, subprocess |-> <<"s", "u", "b", "p",
     "r", "o", "c", "e", "s", "s">>, t |-> <<"t">>, threading |-> <<"t", "h", "r",
     "e", "a", "d", "i", "n", "g">>, u |-> <<"u">>, undefined_name |-> <<"u", "n",
     "d", "e", "f", "i", "n", "e", "d", "_", "n", "a", "m", "e">>, x |-> <<"x">>,
     yaml |-> <<"y", "a", "m", "l">>]

\* set(dir(builtins)), as far as the identifiers of the statements go
_BUILTINS == {"BaseException", "Exception", "TypeError", "ValueError", "__name__", "dict", "eval", "exec", "len", "list", "print", "set"}

\* pat occurs in w at position i
MatchAt(w, i, pat) == i + Len(pat) - 1 <= Len(w) /\ SubSeq(w, i, i + Len(pat) - 1) = pat

\* str.splitlines(): the pieces between line ends, without a last empty piece
SplitLines(w) ==
    LET pieces == Split(w, "\n")
    IN  IF w = <<>> THEN <<>>
        ELSE IF pieces[Len(pieces)] = <<>> THEN SubSeq(pieces, 1, Len(pieces) - 1)
        ELSE pieces

\* the fields of a node that hold nodes, in the order of its _fields
ChildFields(type) ==
    CASE type = "Module" -> <<"body">>
      [] type \in {"Expr", "keyword", "Attribute", "Return"} -> <<"value">>
      [] type = "Call" -> <<"func", "args", "keywords">>
      [] type = "Assign" -> <<"targets", "value">>
      [] type = "Assert" -> <<"test">>
      [] type \in {"FunctionDef", "AsyncFunctionDef"} -> <<"args", "body">>
      [] type = "arguments" ->
             <<"args", "vararg", "kwonlyargs", "kw_defaults", "kwarg", "defaults">>
      [] type = "ClassDef" -> <<"bases", "body">>
      [] type = "If" -> <<"test", "body", "orelse">>
      [] type = "Try" -> <<"body", "handlers">>
      [] type = "ExceptHandler" -> <<"exc_type", "body">>
      [] type = "ImportFrom" -> <<"names">>
      [] type = "List" -> <<"elts">>
      [] type = "Compare" -> <<"left", "comparators">>
      [] type = "BoolOp" -> <<"values">>
      [] OTHER -> <<>>

\* the field holds a list of nodes (args is the arguments node of a function
\* definition, and a list elsewhere)
IsListField(type, f) ==
    \/ f \in {"body", "targets", "keywords", "kwonlyargs", "kw_defaults", "defaults",
              "bases", "orelse", "handlers", "names", "elts", "comparators", "values"}
    \/ f = "args" /\ type \notin {"FunctionDef", "AsyncFunctionDef"}

\* node, and the nodes below it, with the line numbers they have when the
\* statement starts at line lineno (an arguments node has none)
RECURSIVE WithLineno(_, _)
WithLineno(node, lineno) ==
    IF node = NoTree THEN NoTree
    ELSE LET fields == ChildFields(node.type)
             held == {fields[k] : k \in 1..Len(fields)} \cap DOMAIN node
             numbered == IF node.type = "arguments" THEN {} ELSE {"lineno"}
         IN  [f \in DOMAIN node \cup numbered |->
                 IF f = "lineno"
                 THEN lineno + (IF "lineno" \in DOMAIN node THEN node.lineno ELSE 0)
                 ELSE IF f = "end_lineno" THEN lineno + node.end_lineno
                 ELSE IF f \notin held THEN node[f]
                 ELSE IF IsListField(node.type, f)
                 THEN [k \in 1..Len(node[f]) |-> WithLineno(node[f][k], lineno)]
                 ELSE WithLineno(node[f], lineno)]

\* a line that goes on with the statement begun above it: an indented line, or
\* the except clause of a try
IsContinuation(l) ==
    l # <<>> /\ (l[1] = " " \/ MatchAt(l, 1, <<"e", "x", "c", "e", "p", "t">>))

\* the statements of the lines: where each starts, and its text
StatementsOf(lines) ==
    LET n == Len(lines)
        starts == SelectSeq([i \in 1..n |-> i],
                            LAMBDA i : i = 1 \/ ~IsContinuation(lines[i]))
        last(k) == IF k < Len(starts) THEN starts[k + 1] - 1 ELSE n
    IN  [k \in 1..Len(starts) |->
            [lineno |-> starts[k],
             text |-> Join(SubSeq(lines, starts[k], last(k)), <<"\n">>)]]

\* _safe_parse(code, filename): the Module, or NoTree (None) on a SyntaxError (a
\* statement that is none of Statements)
_safe_parse(code) ==
    LET stmts == StatementsOf(SplitLines(code))
    IN  IF \E i \in 1..Len(stmts) : stmts[i].text \notin DOMAIN Statements
        THEN NoTree
        ELSE [type |-> "Module",
              body |-> [i \in 1..Len(stmts) |->
                           WithLineno(Statements[stmts[i].text], stmts[i].lineno)]]

\* ast.iter_child_nodes(node): the nodes its fields hold, None left out
RECURSIVE ChildrenIn(_, _)
ChildrenIn(node, fields) ==
    IF fields = <<>> THEN <<>>
    ELSE LET f == Head(fields)
             here == IF f \notin DOMAIN node THEN <<>>
                     ELSE IF IsListField(node.type, f)
                     THEN SelectSeq(node[f], LAMBDA c : c # NoTree)
                     ELSE IF node[f] = NoTree THEN <<>> ELSE <<node[f]>>
         IN  here \o ChildrenIn(node, Tail(fields))

Children(node) == ChildrenIn(node, ChildFields(node.type))

RECURSIVE ChildrenOfAll(_)
ChildrenOfAll(nodes) ==
    IF nodes = <<>> THEN <<>>
    ELSE Children(Head(nodes)) \o ChildrenOfAll(Tail(nodes))

\* ast.walk: breadth first, level by level
RECURSIVE WalkFrom(_)
WalkFrom(level) ==
    IF level = <<>> THEN <<>>
    ELSE level \o WalkFrom(ChildrenOfAll(level))

Walk(t) == WalkFrom(<<t>>)

\* ast.get_docstring(module): no statement of Grammar is a string expression
GetDocstring(module) == None

----------------------------------------------------------------------------
(* The rules.                                                              *)

\* AssertForRuntime: category 'Correctness', priority MEDIUM
AssertForRuntime_category ==
    <<"C", "o", "r", "r", "e", "c", "t", "n", "e", "s", "s">>

AssertForRuntime_impact ==
    <<"A", "s", "s", "e", "r", "t", "s", " ", "c", "a", "n", " ", "b", "e", " ", "s",
      "t", "r", "i", "p", "p", "e", "d", " ", "w", "i", "t", "h", " ", "-", "O", ";",
      " ", "c", "r", "i", "t", "i", "c", "a", "l", " ", "c", "h", "e", "c", "k", "s",
      " ", "m", "a", "y", " ", "d", "i", "s", "a", "p", "p", "e", "a", "r", ".">>

\* EvalExecUse: category 'Security', priority HIGH
EvalExecUse_category ==
    <<"S", "e", "c", "u", "r", "i", "t", "y">>

EvalExecUse_impact ==
    <<"A", "r", "b", "i", "t", "r", "a", "r", "y", " ", "c", "o", "d", "e", " ", "e",
      "x", "e", "c", "u", "t", "i", "o", "n", " ", "r", "i", "s", "k", ".">>

\* DangerousTokenMagicNumbers: category 'Correctness', priority MEDIUM
DangerousTokenMagicNumbers_category ==
    <<"C", "o", "r", "r", "e", "c", "t", "n", "e", "s", "s">>

DangerousTokenMagicNumbers_impact ==
    <<"B", "r", "i", "t", "t", "l", "e", " ", "p", "a", "r", "s", "i", "n", "g", ";",
      " ", "u", "n", "c", "l", "e", "a", "r", " ", "m", "e", "a", "n", "i", "n", "g",
      ".">>

\* PrintStatements: category 'Code Cleanliness', priority LOW
PrintStatements_category ==
    <<"C", "o", "d", "e", " ", "C", "l", "e", "a", "n", "l", "i", "n", "e", "s", "s">>

PrintStatements_impact ==
    <<"P", "r", "e", "f", "e", "r", " ", "l", "o", "g", "g", "i", "n", "g", " ", "o",
      "r", " ", "r", "e", "t", "u", "r", "n", "i", "n", "g", " ", "v", "a", "l", "u",
      "e", "s", ".">>

\* TodoComments: category 'Process', priority LOW
TodoComments_category ==
    <<"P", "r", "o", "c", "e", "s", "s">>

TodoComments_impact ==
    <<"O", "u", "t", "s", "t", "a", "n", "d", "i", "n", "g", " ", "w", "o", "r", "k",
      " ", "i", "t", "e", "m", "s", ";", " ", "e", "n", "s", "u", "r", "e", " ", "t",
      "r", "a", "c", "k", "i", "n", "g", ".">>

\* PlatformSpecificPaths: category 'Portability', priority MEDIUM
PlatformSpecificPaths_category ==
    <<"P", "o", "r", "t", "a", "b", "i", "l", "i", "t", "y">>

PlatformSpecificPaths_impact ==
    <<"P", "a", "t", "h", " ", "s", "e", "p", "a", "r", "a", "t", "o", "r", "s", " ",
      "o", "r", " ", "d", "r", "i", "v", "e", " ", "l", "e", "t", "t", "e", "r", "s",
      " ", "m", "a", "y", " ", "b", "r", "e", "a", "k", " ", "o", "n", " ", "o", "t",
      "h", "e", "r", " ", "O", "S", ".">>

\* MissingDocstringRule: category 'Style/Maintainability', priority LOW
MissingDocstringRule_category ==
    <<"S", "t", "y", "l", "e", "/", "M", "a", "i", "n", "t", "a", "i", "n", "a", "b",
      "i", "l", "i", "t", "y">>

MissingDocstringRule_impact ==
    <<"M", "i", "s", "s", "i", "n", "g", " ", "d", "o", "c", "s", "t", "r", "i", "n",
      "g", "s", " ", "h", "u", "r", "t", " ", "d", "i", "s", "c", "o", "v", "e", "r",
      "a", "b", "i", "l", "i", "t", "y", " ", "a", "n", "d", " ", "m", "a", "i", "n",
      "t", "e", "n", "a", "n", "c", "e", ".">>

AssertForRuntime_message ==
    <<"A", "v", "o", "i", "d", " ", "a", "s", "s", "e", "r", "t", " ", "f", "o", "r",
      " ", "r", "u", "n", "t", "i", "m", "e", " ", "v", "a", "l", "i", "d", "a", "t",
      "i", "o", "n", ";", " ", "r", "a", "i", "s", "e", " ", "e", "x", "c", "e", "p",
      "t", "i", "o", "n", "s", " ", "i", "n", "s", "t", "e", "a", "d", ".">>

EvalExecUse_prefix ==
    <<"U", "s", "e", " ", "o", "f", " ">>

EvalExecUse_suffix ==
    <<"(", ")", ".", " ", "A", "v", "o", "i", "d", " ", "o", "n", " ", "u", "n", "t",
      "r", "u", "s", "t", "e", "d", " ", "i", "n", "p", "u", "t", ".">>

DangerousTokenMagicNumbers_message ==
    <<"C", "o", "m", "p", "a", "r", "i", "n", "g", " ", "t", "o", "k", "e", "n", " ",
      ".", "t", "y", "p", "e", " ", "t", "o", " ", "n", "u", "m", "e", "r", "i", "c",
      " ", "l", "i", "t", "e", "r", "a", "l", ";", " ", "p", "r", "e", "f", "e", "r",
      " ", "n", "a", "m", "e", "d", " ", "c", "o", "n", "s", "t", "a", "n", "t", "s",
      " ", "f", "r", "o", "m", " ", "t", "o", "k", "e", "n", " ", "m", "o", "d", "u",
      "l", "e", ".">>

TodoComments_message ==
    <<"F", "o", "u", "n", "d", " ", "T", "O", "D", "O", "/", "F", "I", "X", "M", "E",
      ".", " ", "C", "o", "n", "f", "i", "r", "m", " ", "t", "i", "c", "k", "e", "t",
      "/", "i", "s", "s", "u", "e", " ", "r", "e", "f", "e", "r", "e", "n", "c", "e",
      " ", "o", "r", " ", "r", "e", "s", "o", "l", "v", "e", ".">>

PlatformSpecificPaths_message ==
    <<"H", "a", "r", "d", "c", "o", "d", "e", "d", " ", "p", "a", "t", "h", " ", "d",
      "e", "t", "e", "c", "t", "e", "d", ".", " ", "P", "r", "e", "f", "e", "r", " ",
      "p", "a", "t", "h", "l", "i", "b", ".", "P", "a", "t", "h", " ", "o", "r", " ",
      "o", "s", ".", "p", "a", "t", "h", ".", "j", "o", "i", "n", " ", "f", "o", "r",
      " ", "p", "o", "r", "t", "a", "b", "i", "l", "i", "t", "y", ".">>

MissingDocstringRule_module_message ==
    <<":", " ", "M", "o", "d", "u", "l", "e", " ", "m", "i", "s", "s", "i", "n", "g",
      " ", "t", "o", "p", "-", "l", "e", "v", "e", "l", " ", "d", "o", "c", "s", "t",
      "r", "i", "n", "g", ".">>

PrintStatements_message ==
    <<"p", "r", "i", "n", "t", "(", ")", " ", "u", "s", "e", "d", ";", " ", "c", "o",
      "n", "s", "i", "d", "e", "r", " ", "l", "o", "g", "g", "i", "n", "g", " ", "o",
      "r", " ", "r", "e", "t", "u", "r", "n", "i", "n", "g", " ", "v", "a", "l", "u",
      "e", "s", " ", "i", "n", "s", "t", "e", "a", "d", ".">>

\* the texts of BareOrBroadExcept
BareOrBroadExcept_strings ==
    [category |->
        <<"E", "r", "r", "o", "r", " ", "H", "a", "n", "d", "l", "i", "n", "g">>,
     impact |->
        <<"B", "u", "g", "s", " ", "h", "i", "d", "d", "e", "n", " ", "b", "y", " ",
        "c", "a", "t", "c", "h", "i", "n", "g", " ", "e", "v", "e", "r", "y", "t",
        "h", "i", "n", "g", ";", " ", "h", "a", "r", "d", "e", "r", " ", "d", "e",
        "b", "u", "g", "g", "i", "n", "g", ".">>,
     catch_all |->
        <<"C", "a", "t", "c", "h", "-", "a", "l", "l", " ", "\"", "e", "x", "c", "e",
        "p", "t", ":", "\"", " ", "u", "s", "e", "d", ".", " ", "C", "a", "t", "c",
        "h", " ", "s", "p", "e", "c", "i", "f", "i", "c", " ", "e", "x", "c", "e",
        "p", "t", "i", "o", "n", "s", ".">>,
     broad_prefix |->
        <<"O", "v", "e", "r", "l", "y", " ", "b", "r", "o", "a", "d", " ", "e", "x",
        "c", "e", "p", "t", "i", "o", "n", " ", "h", "a", "n", "d", "l", "e", "r",
        " ", "(">>,
     broad_suffix |->
        <<")", ".">>]

\* the texts of MutableDefaultArgs
MutableDefaultArgs_strings ==
    [category |->
        <<"C", "o", "r", "r", "e", "c", "t", "n", "e", "s", "s">>,
     impact |->
        <<"S", "h", "a", "r", "e", "d", " ", "m", "u", "t", "a", "b", "l", "e", " ",
        "s", "t", "a", "t", "e", " ", "a", "c", "r", "o", "s", "s", " ", "c", "a",
        "l", "l", "s", ";", " ", "s", "u", "r", "p", "r", "i", "s", "i", "n", "g",
        " ", "b", "e", "h", "a", "v", "i", "o", "r", ".">>,
     default_prefix |->
        <<"M", "u", "t", "a", "b", "l", "e", " ", "d", "e", "f", "a", "u", "l", "t",
        " ", "i", "n", " ", "f", "u", "n", "c", "t", "i", "o", "n", " ", "\"">>,
     kw_default_prefix |->
        <<"M", "u", "t", "a", "b", "l", "e", " ", "k", "e", "y", "w", "o", "r", "d",
        "-", "o", "n", "l", "y", " ", "d", "e", "f", "a", "u", "l", "t", " ", "i",
        "n", " ", "f", "u", "n", "c", "t", "i", "o", "n", " ", "\"">>,
     suffix |->
        <<"\"", ".">>]

\* the texts of DangerousFunctions
DangerousFunctions_strings ==
    [category |->
        <<"S", "e", "c", "u", "r", "i", "t", "y">>,
     impact |->
        <<"U", "n", "s", "a", "f", "e", " ", "d", "e", "s", "e", "r", "i", "a", "l",
        "i", "z", "a", "t", "i", "o", "n", " ", "o", "r", " ", "c", "o", "m", "m",
        "a", "n", "d", " ", "i", "n", "j", "e", "c", "t", "i", "o", "n", " ", "r",
        "i", "s", "k", ".">>,
     os_system |->
        <<"o", "s", ".", "s", "y", "s", "t", "e", "m", " ", "u", "s", "e", "d", ";",
        " ", "p", "r", "e", "f", "e", "r", " ", "s", "u", "b", "p", "r", "o", "c",
        "e", "s", "s", " ", "w", "i", "t", "h", "o", "u", "t", " ", "s", "h", "e",
        "l", "l", "=", "T", "r", "u", "e", ".">>,
     shell_true |->
        <<"s", "u", "b", "p", "r", "o", "c", "e", "s", "s", " ", "w", "i", "t", "h",
        " ", "s", "h", "e", "l", "l", "=", "T", "r", "u", "e", ";", " ", "r", "i",
        "s", "k", " ", "o", "f", " ", "i", "n", "j", "e", "c", "t", "i", "o", "n",
        ".">>]

\* the texts of UndefinedNameRule
UndefinedNameRule_strings ==
    [category |->
        <<"C", "o", "r", "r", "e", "c", "t", "n", "e", "s", "s">>,
     impact |->
        <<"N", "a", "m", "e", " ", "u", "s", "e", "d", " ", "b", "e", "f", "o", "r",
        "e", " ", "d", "e", "f", "i", "n", "i", "t", "i", "o", "n", "/", "i", "m",
        "p", "o", "r", "t", ".">>,
     prefix |->
        <<"N", "a", "m", "e", " ", "\"">>,
     suffix |->
        <<"\"", " ", "m", "i", "g", "h", "t", " ", "b", "e", " ", "u", "n", "d", "e",
        "f", "i", "n", "e", "d", " ", "i", "n", " ", "t", "h", "i", "s", " ", "s",
        "c", "o", "p", "e", ".">>]

\* the texts of EmptyExceptBodyRule
EmptyExceptBodyRule_strings ==
    [category |->
        <<"E", "r", "r", "o", "r", " ", "H", "a", "n", "d", "l", "i", "n", "g">>,
     impact |->
        <<"S", "i", "l", "e", "n", "t", "l", "y", " ", "i", "g", "n", "o", "r", "i",
        "n", "g", " ", "e", "r", "r", "o", "r", "s", " ", "h", "i", "d", "e", "s",
        " ", "f", "a", "i", "l", "u", "r", "e", "s", " ", "a", "n", "d", " ", "c",
        "o", "m", "p", "l", "i", "c", "a", "t", "e", "s", " ", "d", "e", "b", "u",
        "g", "g", "i", "n", "g", ".">>,
     empty |->
        <<":", " ", "E", "m", "p", "t", "y", " ", "'", "e", "x", "c", "e", "p", "t",
        "'", " ", "b", "l", "o", "c", "k", ";", " ", "h", "a", "n", "d", "l", "e",
        " ", "o", "r", " ", "r", "e", "-", "r", "a", "i", "s", "e", ".">>,
     does_nothing |->
        <<":", " ", "'", "e", "x", "c", "e", "p", "t", "'", " ", "b", "o", "d", "y",
        " ", "d", "o", "e", "s", " ", "n", "o", "t", "h", "i", "n", "g", " ", "(",
        "p", "a", "s", "s", "/", "e", "l", "l", "i", "p", "s", "i", "s", "/", "d",
        "o", "c", "s", "t", "r", "i", "n", "g", ")", ".", " ", "A", "v", "o", "i",
        "d", " ", "s", "w", "a", "l", "l", "o", "w", "i", "n", "g", " ", "e", "x",
        "c", "e", "p", "t", "i", "o", "n", "s", ".">>]

\* the texts of CircularImportRule
CircularImportRule_strings ==
    [category |->
        <<"M", "a", "i", "n", "t", "a", "i", "n", "a", "b", "i", "l", "i", "t", "y">>,
     impact |->
        <<"L", "i", "k", "e", "l", "y", " ", "c", "i", "r", "c", "u", "l", "a", "r",
        "-", "i", "m", "p", "o", "r", "t", " ", "w", "o", "r", "k", "a", "r", "o",
        "u", "n", "d", ";", " ", "c", "o", "n", "s", "i", "d", "e", "r", " ", "r",
        "e", "f", "a", "c", "t", "o", "r", "i", "n", "g", " ", "s", "h", "a", "r",
        "e", "d", " ", "t", "y", "p", "e", "s", " ", "o", "r", " ", "m", "o", "v",
        "i", "n", "g", " ", "i", "m", "p", "o", "r", "t", "s", ".">>,
     local_import |->
        <<":", " ", "L", "o", "c", "a", "l", "-", "m", "o", "d", "u", "l", "e", " ",
        "i", "m", "p", "o", "r", "t", " ", "i", "n", "s", "i", "d", "e", " ", "a",
        " ", "f", "u", "n", "c", "t", "i", "o", "n", " ", "s", "u", "g", "g", "e",
        "s", "t", "s", " ", "a", " ", "c", "i", "r", "c", "u", "l", "a", "r", " ",
        "i", "m", "p", "o", "r", "t", " ", "w", "o", "r", "k", "a", "r", "o", "u",
        "n", "d", ".">>,
     inner_import |->
        <<":", " ", "R", "e", "l", "a", "t", "i", "v", "e", "/", "i", "n", "n", "e",
        "r", " ", "i", "m", "p", "o", "r", "t", " ", "i", "n", "s", "i", "d", "e",
        " ", "a", " ", "f", "u", "n", "c", "t", "i", "o", "n", " ", "s", "u", "g",
        "g", "e", "s", "t", "s", " ", "a", " ", "c", "i", "r", "c", "u", "l", "a",
        "r", " ", "i", "m", "p", "o", "r", "t", " ", "w", "o", "r", "k", "a", "r",
        "o", "u", "n", "d", ".">>,
     type_checking |->
        <<":", " ", "I", "m", "p", "o", "r", "t", " ", "u", "n", "d", "e", "r", " ",
        "T", "Y", "P", "E", "_", "C", "H", "E", "C", "K", "I", "N", "G", " ", "l",
        "i", "k", "e", "l", "y", " ", "i", "n", "d", "i", "c", "a", "t", "e", "s",
        " ", "a", " ", "t", "y", "p", "e", "-", "o", "n", "l", "y", " ", "i", "m",
        "p", "o", "r", "t", " ", "t", "o", " ", "a", "v", "o", "i", "d", " ", "c",
        "y", "c", "l", "e", "s", ".">>]

\* the texts of ThreadSafetyRule
ThreadSafetyRule_strings ==
    [category |->
        <<"C", "o", "n", "c", "u", "r", "r", "e", "n", "c", "y">>,
     impact |->
        <<"S", "h", "a", "r", "e", "d", " ", "m", "u", "t", "a", "b", "l", "e", " ",
        "g", "l", "o", "b", "a", "l", "s", " ", "a", "c", "c", "e", "s", "s", "e",
        "d", " ", "b", "y", " ", "t", "h", "r", "e", "a", "d", "s", " ", "c", "a",
        "n", " ", "c", "a", "u", "s", "e", " ", "r", "a", "c", "e", "s", ";", " ",
        "u", "s", "e", " ", "l", "o", "c", "k", "s", " ", "o", "r", " ", "c", "o",
        "n", "f", "i", "n", "e", " ", "s", "t", "a", "t", "e", ".">>,
     prefix |->
        <<":", " ", "M", "u", "t", "a", "b", "l", "e", " ", "g", "l", "o", "b", "a",
        "l", "s", " ">>,
     suffix |->
        <<" ", "w", "r", "i", "t", "t", "e", "n", " ", "w", "h", "i", "l", "e", " ",
        "u", "s", "i", "n", "g", " ", "t", "h", "r", "e", "a", "d", "s", ";", " ",
        "u", "s", "e", " ", "l", "o", "c", "k", "s", " ", "o", "r", " ", "a", "v",
        "o", "i", "d", " ", "s", "h", "a", "r", "e", "d", " ", "s", "t", "a", "t",
        "e", ".">>]

\* the messages of MissingDocstringRule for a function, an async function, a class
MissingDocstringRule_public ==
    [FunctionDef |->
        <<":", " ", "P", "u", "b", "l", "i", "c", " ", "f", "u", "n", "c", "t", "i",
        "o", "n", " ", "'">>,
     AsyncFunctionDef |->
        <<":", " ", "P", "u", "b", "l", "i", "c", " ", "a", "s", "y", "n", "c", " ",
        "f", "u", "n", "c", "t", "i", "o", "n", " ", "'">>,
     ClassDef |->
        <<":", " ", "P", "u", "b", "l", "i", "c", " ", "c", "l", "a", "s", "s", " ",
        "'">>]

MissingDocstringRule_missing ==
    <<"'", " ", "m", "i", "s", "s", "i", "n", "g", " ", "d", "o", "c", "s", "t", "r",
    "i", "n", "g", ".">>


\* what a call returns that raised IndexError
IndexError == [raised |-> "IndexError"]

\* Rule.make: line is a tuple of any length ([tuple |-> <<a, b, ...>>]), an int
\* ([int |-> n]) or another iterable of ints ([lines |-> list]). Every tuple takes
\* the first branch: line[0] and line[1] are read whatever the length, and a
\* tuple with fewer than two elements raises IndexError there.
make(self, line, message) ==
    IF "tuple" \in DOMAIN line /\ Len(line.tuple) < 2 THEN IndexError
    ELSE
    LET impacted ==
            IF "tuple" \in DOMAIN line
            THEN str(line.tuple[1]) \o <<"-">> \o str(line.tuple[2])
            ELSE IF "int" \in DOMAIN line
            THEN str(line.int)
            ELSE LET sorted == Sorted(SetOf(line.lines))
                 IN  Join([k \in 1..Len(sorted) |-> str(sorted[k])], <<",">>)
    IN  Issue(self.category, self.priority, impacted, self.impact, message)

\* Rule.report, with every argument given
report(category, priority, line, impact, message) ==
    Issue(category, priority, str(line), impact, message)

\* pat in w
HasSub(w, pat) == \E i \in 1..Len(w) : MatchAt(w, i, pat)

Uppers ==
    <<"A", "B", "C", "D", "E", "F", "G", "H", "I", "J", "K", "L", "M", "N", "O",
      "P", "Q", "R", "S", "T", "U", "V", "W", "X", "Y", "Z">>

\* the upper-case letter of every lower-case letter
UpperOf ==
    [c \in {AsciiFrom97[k] : k \in 1..26} |-> Uppers[CHOOSE k \in 1..26 : AsciiFrom97[k] = c]]

IsLower(c) == c \in DOMAIN UpperOf

IsLetter(c) == IsLower(c) \/ c \in {Uppers[k] : k \in 1..26}

\* str.upper()
upper(w) == [i \in 1..Len(w) |-> IF IsLower(w[i]) THEN UpperOf[w[i]] ELSE w[i]]

\* the first position from i on that holds no whitespace
RECURSIVE SkipSpace(_, _)
SkipSpace(w, i) == IF i <= Len(w) /\ IsSpace(w[i]) THEN SkipSpace(w, i + 1) ELSE i

\* re.search(r"\.type\s*==\s*\d+", w)
TokenTypePattern(w) ==
    \E i \in 1..Len(w) :
        /\ MatchAt(w, i, <<".", "t", "y", "p", "e">>)
        /\ LET j == SkipSpace(w, i + 5)
           IN  /\ MatchAt(w, j, <<"=", "=">>)
               /\ LET k == SkipSpace(w, j + 2)
                  IN  k <= Len(w) /\ IsDigit(w[k])

\* re.search(r"[A-Za-z]:\\\\", w): a letter, a colon and two backslashes
DrivePattern(w) ==
    \E i \in 1..Len(w) : IsLetter(w[i]) /\ MatchAt(w, i + 1, <<":", "\\", "\\">>)

\* re.search(r"\\{2,}", w): two backslashes in a row
BackslashRunPattern(w) == HasSub(w, <<"\\", "\\">>)

\* enumerate(text.splitlines(), start=1): the line numbers of the text
LineNumbers(w) == [i \in 1..Len(SplitLines(w)) |-> i]

\* "TODO" in up or "FIXME" in up, for up = line.upper()
TodoHit(line) ==
    LET up == upper(line)
    IN  HasSub(up, <<"T", "O", "D", "O">>) \/ HasSub(up, <<"F", "I", "X", "M", "E">>)

\* the three alternatives of the test of PlatformSpecificPaths
PathHit(line) ==
    \/ DrivePattern(line)
    \/ (Contains(line, "\\") /\ Contains(line, "/"))
    \/ BackslashRunPattern(line)

IsCallOf(node, names) ==
    node.type = "Call" /\ node.func.type = "Name" /\ node.func.id \in names

AssertForRuntime(filename, t, w) ==
    LET self == [category |-> AssertForRuntime_category, priority |-> "MEDIUM",
                 impact |-> AssertForRuntime_impact]
        hits == IF t = NoTree THEN <<>> ELSE SelectSeq(Walk(t), LAMBDA n : n.type = "Assert")
    IN  [k \in 1..Len(hits) |-> make(self, [int |-> hits[k].lineno], AssertForRuntime_message)]

EvalExecUse(filename, t, w) ==
    LET self == [category |-> EvalExecUse_category, priority |-> "HIGH",
                 impact |-> EvalExecUse_impact]
        hits == IF t = NoTree THEN <<>>
                ELSE SelectSeq(Walk(t), LAMBDA n : IsCallOf(n, {"eval", "exec"}))
        name(n) == IF n.func.id = "eval" THEN <<"e", "v", "a", "l">> ELSE <<"e", "x", "e", "c">>
    IN  [k \in 1..Len(hits) |->
            make(self, [int |-> hits[k].lineno],
                 EvalExecUse_prefix \o name(hits[k]) \o EvalExecUse_suffix)]

PrintStatements(filename, t, w) ==
    LET self == [category |-> PrintStatements_category, priority |-> "LOW",
                 impact |-> PrintStatements_impact]
        hits == IF t = NoTree THEN <<>> ELSE SelectSeq(Walk(t), LAMBDA n : IsCallOf(n, {"print"}))
    IN  [k \in 1..Len(hits) |-> make(self, [int |-> hits[k].lineno], PrintStatements_message)]

\* no test of the tree: the text is scanned whether or not it parsed
DangerousTokenMagicNumbers(filename, t, w) ==
    LET self == [category |-> DangerousTokenMagicNumbers_category, priority |-> "MEDIUM",
                 impact |-> DangerousTokenMagicNumbers_impact]
        lines == SplitLines(w)
        hits == SelectSeq(LineNumbers(w), LAMBDA i : TokenTypePattern(lines[i]))
    IN  [k \in 1..Len(hits) |->
            make(self, [int |-> hits[k]], DangerousTokenMagicNumbers_message)]

\* no test of the tree
TodoComments(filename, t, w) ==
    LET self == [category |-> TodoComments_category, priority |-> "LOW",
                 impact |-> TodoComments_impact]
        lines == SplitLines(w)
        hits == SelectSeq(LineNumbers(w), LAMBDA i : TodoHit(lines[i]))
    IN  [k \in 1..Len(hits) |-> make(self, [int |-> hits[k]], TodoComments_message)]

\* no test of the tree
PlatformSpecificPaths(filename, t, w) ==
    LET self == [category |-> PlatformSpecificPaths_category, priority |-> "MEDIUM",
                 impact |-> PlatformSpecificPaths_impact]
        lines == SplitLines(w)
        hits == SelectSeq(LineNumbers(w), LAMBDA i : PathHit(lines[i]))
    IN  [k \in 1..Len(hits) |-> make(self, [int |-> hits[k]], PlatformSpecificPaths_message)]

\* FStringMissing.check reports a string constant that holds '{', a letter and
\* '}' and is not the receiver of .format; no string constant in the texts of
\* the model holds a brace, so on these texts it returns an empty list
FStringMissing(filename, t, w) == <<>>

\* the concatenation of the lists of a list
RECURSIVE Concat(_)
Concat(lists) == IF lists = <<>> THEN <<>> ELSE Head(lists) \o Concat(Tail(lists))

FunctionTypes == {"FunctionDef", "AsyncFunctionDef"}

\* the nodes of the tree depth first, field by field, each node with the chain of its parent attributes, nearest first
RECURSIVE VisitUnder(_, _), VisitAllUnder(_, _)
VisitUnder(node, parents) ==
    <<[node |-> node, parents |-> parents]>>
        \o VisitAllUnder(Children(node), <<node>> \o parents)

VisitAllUnder(nodes, parents) ==
    IF nodes = <<>> THEN <<>>
    ELSE VisitUnder(Head(nodes), parents) \o VisitAllUnder(Tail(nodes), parents)

BareOrBroadExcept(filename, t, w) ==
    LET self == [category |-> BareOrBroadExcept_strings.category, priority |-> "HIGH",
                 impact |-> BareOrBroadExcept_strings.impact]
        at(node) ==
            IF node.type # "ExceptHandler" THEN <<>>
            ELSE IF node.exc_type = NoTree
            THEN <<make(self, [int |-> node.lineno], BareOrBroadExcept_strings.catch_all)>>
            ELSE IF node.exc_type.type = "Name"
                    /\ node.exc_type.id \in {"Exception", "BaseException"}
            THEN <<make(self, [int |-> node.lineno],
                        BareOrBroadExcept_strings.broad_prefix
                            \o IdChars[node.exc_type.id]
                            \o BareOrBroadExcept_strings.broad_suffix)>>
            \* a Tuple of types: no statement of the model builds one
            ELSE <<>>
    IN  IF t = NoTree THEN <<>>
        ELSE LET nodes == Walk(t) IN Concat([k \in 1..Len(nodes) |-> at(nodes[k])])

_is_mutable_default(node) ==
    \/ node.type \in {"List", "Dict", "Set"}
    \/ /\ node.type = "Call"
       /\ node.func.type = "Name"
       /\ node.func.id \in {"list", "dict", "set"}

\* the defaults are gone through before the keyword-only defaults
MutableDefaultArgs_KeywordOnlyLeftOut(filename, t, w) ==
    LET self == [category |-> MutableDefaultArgs_strings.category, priority |-> "HIGH",
                 impact |-> MutableDefaultArgs_strings.impact]
        one(fn, prefix) ==
            make(self, [int |-> fn.lineno],
                 prefix \o IdChars[fn.name] \o MutableDefaultArgs_strings.suffix)
        at(fn) ==
            IF fn.type \notin FunctionTypes THEN <<>>
            ELSE LET mutable == SelectSeq(fn.args.defaults, _is_mutable_default)
                 IN  [k \in 1..Len(mutable) |->
                          one(fn, MutableDefaultArgs_strings.default_prefix)]
    IN  IF t = NoTree THEN <<>>
        ELSE LET nodes == Walk(t) IN Concat([k \in 1..Len(nodes) |-> at(nodes[k])])

MutableDefaultArgs(filename, t, w) ==
    LET self == [category |-> MutableDefaultArgs_strings.category, priority |-> "HIGH",
                 impact |-> MutableDefaultArgs_strings.impact]
        one(fn, prefix) ==
            make(self, [int |-> fn.lineno],
                 prefix \o IdChars[fn.name] \o MutableDefaultArgs_strings.suffix)
        at(fn) ==
            IF fn.type \notin FunctionTypes THEN <<>>
            ELSE LET mutable == SelectSeq(fn.args.defaults, _is_mutable_default)
                     kw_mutable ==
                         SelectSeq(fn.args.kw_defaults,
                                   LAMBDA d : d # NoTree /\ _is_mutable_default(d))
                 IN  [k \in 1..Len(mutable) |->
                          one(fn, MutableDefaultArgs_strings.default_prefix)]
                     \o [k \in 1..Len(kw_mutable) |->
                          one(fn, MutableDefaultArgs_strings.kw_default_prefix)]
    IN  IF t = NoTree THEN <<>>
        ELSE LET nodes == Walk(t) IN Concat([k \in 1..Len(nodes) |-> at(nodes[k])])

\* next(kw for kw in node.keywords if kw.arg == "shell"), and the test of its value
ShellIsTrue(node) ==
    LET shell == SelectSeq(node.keywords, LAMBDA kw : kw.arg = "shell")
    IN  /\ shell # <<>>
        /\ shell[1].value.type = "Constant"
        /\ shell[1].value.constant = "True"

\* the test of the shell keyword left out
DangerousFunctions_AnyShell(filename, t, w) ==
    LET self == [category |-> DangerousFunctions_strings.category, priority |-> "HIGH",
                 impact |-> DangerousFunctions_strings.impact]
        full(node) == IF node.func.value.type = "Name" THEN node.func.value.id ELSE ""
        at(node) ==
            IF ~(node.type = "Call" /\ node.func.type = "Attribute") THEN <<>>
            ELSE (IF full(node) = "os" /\ node.func.attr = "system"
                  THEN <<make(self, [int |-> node.lineno],
                              DangerousFunctions_strings.os_system)>>
                  ELSE <<>>)
                 \o (IF full(node) = "subprocess"
                     THEN <<make(self, [int |-> node.lineno],
                                 DangerousFunctions_strings.shell_true)>>
                     ELSE <<>>)
    IN  IF t = NoTree THEN <<>>
        ELSE LET nodes == Walk(t) IN Concat([k \in 1..Len(nodes) |-> at(nodes[k])])

\* the yaml.load and pickle.load(s) branches are for calls that no statement of the
\* model makes
DangerousFunctions(filename, t, w) ==
    LET self == [category |-> DangerousFunctions_strings.category, priority |-> "HIGH",
                 impact |-> DangerousFunctions_strings.impact]
        full(node) == IF node.func.value.type = "Name" THEN node.func.value.id ELSE ""
        at(node) ==
            IF ~(node.type = "Call" /\ node.func.type = "Attribute") THEN <<>>
            ELSE (IF full(node) = "os" /\ node.func.attr = "system"
                  THEN <<make(self, [int |-> node.lineno],
                              DangerousFunctions_strings.os_system)>>
                  ELSE <<>>)
                 \o (IF full(node) = "subprocess" /\ ShellIsTrue(node)
                     THEN <<make(self, [int |-> node.lineno],
                                 DangerousFunctions_strings.shell_true)>>
                     ELSE <<>>)
    IN  IF t = NoTree THEN <<>>
        ELSE LET nodes == Walk(t) IN Concat([k \in 1..Len(nodes) |-> at(nodes[k])])

\* ast.walk(ast.Module(body=body)) without the wrapper
WalkBody(body) == WalkFrom(body)

\* UndefinedNameRule._names_from_target (a target of the model is a Name)
_names_from_target(target) == IF target.type = "Name" THEN {target.id} ELSE {}

\* the names one node of the walk defines; for, with and comprehension targets and
\* import statements other than from-imports are in no statement of the model
DefinedBy(n) ==
    CASE n.type \in FunctionTypes \cup {"ClassDef"} -> {n.name}
      [] n.type = "arguments" ->
            {n.args[k].arg : k \in 1..Len(n.args)}
                \cup {n.kwonlyargs[k].arg : k \in 1..Len(n.kwonlyargs)}
                \cup (IF n.vararg # NoTree THEN {n.vararg.arg} ELSE {})
                \cup (IF n.kwarg # NoTree THEN {n.kwarg.arg} ELSE {})
      [] n.type = "Assign" ->
            UNION {_names_from_target(n.targets[k]) : k \in 1..Len(n.targets)}
      [] n.type = "ImportFrom" -> {n.names[k].name : k \in 1..Len(n.names)}
      [] OTHER -> {}

_collect_defined_in_scope(body) ==
    LET nodes == WalkBody(body)
    IN  _BUILTINS \cup {"__name__", "__file__"}
            \cup UNION {DefinedBy(nodes[k]) : k \in 1..Len(nodes)}

\* the name loads of the nodes that are not among the visible names, in order
UndefinedLoads(nodes, visible) ==
    SelectSeq(nodes, LAMBDA n : n.type = "Name" /\ n.ctx = "Load" /\ n.id \notin visible)

\* the nodes the two passes of UndefinedNameRule.check look at: the walk of every
\* top-level statement that is no def and no class, then the walk of the body of every
\* function of the tree
UndefinedNameRule_examined(t) ==
    LET tops == SelectSeq(t.body, LAMBDA top : top.type \notin FunctionTypes \cup {"ClassDef"})
        fns == SelectSeq(Walk(t), LAMBDA x : x.type \in FunctionTypes)
    IN  Concat([k \in 1..Len(tops) |-> Walk(tops[k])])
            \o Concat([k \in 1..Len(fns) |-> WalkBody(fns[k].body)])

UndefinedNameRule(filename, t, w) ==
    LET self == [category |-> UndefinedNameRule_strings.category, priority |-> "HIGH",
                 impact |-> UndefinedNameRule_strings.impact]
        one(n) == make(self, [int |-> n.lineno],
                       UndefinedNameRule_strings.prefix \o IdChars[n.id]
                           \o UndefinedNameRule_strings.suffix)
        module_defined == _collect_defined_in_scope(t.body)
        tops == SelectSeq(t.body, LAMBDA top : top.type \notin FunctionTypes \cup {"ClassDef"})
        module_pass ==
            Concat([k \in 1..Len(tops) |-> UndefinedLoads(Walk(tops[k]), module_defined)])
        fns == SelectSeq(Walk(t), LAMBDA x : x.type \in FunctionTypes)
        visible(fn) == module_defined \cup DefinedBy(fn.args)
                           \cup _collect_defined_in_scope(fn.body)
        function_pass ==
            Concat([k \in 1..Len(fns) |-> UndefinedLoads(WalkBody(fns[k].body), visible(fns[k]))])
        loads == module_pass \o function_pass
    IN  IF t = NoTree THEN <<>> ELSE [k \in 1..Len(loads) |-> one(loads[k])]

\* the 'parent' attributes above a node, nearest first, are the nodes it lies in:
\* Rule.check sets them on every node below the tree before it visits the tree

\* self with the report appended to its _issues (Rule.report)
Reported(self, issue) == [self EXCEPT !._issues = Append(@, issue)]

\* node.name.startswith("_")
IsPrivate(name) == IdChars[name][1] = "_"

\* MissingDocstringRule.visit_Module, visit_FunctionDef, visit_AsyncFunctionDef and
\* visit_ClassDef; each goes on with generic_visit
MissingDocstringRule_visit(self, node) ==
    IF node.type = "Module"
    THEN IF GetDocstring(node) = None
         THEN Reported(self, report(MissingDocstringRule_category, "LOW", 1,
                                    MissingDocstringRule_impact,
                                    self.filename \o MissingDocstringRule_module_message))
         ELSE self
    ELSE IF node.type \in DOMAIN MissingDocstringRule_public
            /\ ~IsPrivate(node.name) /\ GetDocstring(node) = None
    THEN Reported(self, report(MissingDocstringRule_category, "LOW", node.lineno,
                               MissingDocstringRule_impact,
                               self.filename \o MissingDocstringRule_public[node.type]
                                   \o IdChars[node.name] \o MissingDocstringRule_missing))
    ELSE self

\* _trivial(stmt) of EmptyExceptBodyRule.visit_ExceptHandler
_trivial(stmt) ==
    \/ stmt.type = "Pass"
    \/ /\ stmt.type = "Expr"
       /\ stmt.value.type = "Constant"
       /\ stmt.value.constant \in {"Ellipsis", "str"}

\* pass alone counts as doing nothing
EmptyExceptBodyRule_visit_PassOnly(self, node) ==
    IF node.type # "ExceptHandler" THEN self
    ELSE IF node.body = <<>>
    THEN Reported(self, report(EmptyExceptBodyRule_strings.category, "HIGH", node.lineno,
                               EmptyExceptBodyRule_strings.impact,
                               self.filename \o EmptyExceptBodyRule_strings.empty))
    ELSE IF \A k \in 1..Len(node.body) : node.body[k].type = "Pass"
    THEN Reported(self, report(EmptyExceptBodyRule_strings.category, "HIGH", node.lineno,
                               EmptyExceptBodyRule_strings.impact,
                               self.filename \o EmptyExceptBodyRule_strings.does_nothing))
    ELSE self

\* EmptyExceptBodyRule.visit_ExceptHandler
EmptyExceptBodyRule_visit(self, node) ==
    IF node.type # "ExceptHandler" THEN self
    ELSE IF node.body = <<>>
    THEN Reported(self, report(EmptyExceptBodyRule_strings.category, "HIGH", node.lineno,
                               EmptyExceptBodyRule_strings.impact,
                               self.filename \o EmptyExceptBodyRule_strings.empty))
    ELSE IF \A k \in 1..Len(node.body) : _trivial(node.body[k])
    THEN Reported(self, report(EmptyExceptBodyRule_strings.category, "HIGH", node.lineno,
                               EmptyExceptBodyRule_strings.impact,
                               self.filename \o EmptyExceptBodyRule_strings.does_nothing))
    ELSE self

\* CircularImportRule._inside_function(node), cur going up the parents: whether a
\* function is met, and the parent_if attribute it leaves on the node (NoTree: none)
RECURSIVE _inside_function(_, _, _)
_inside_function(node, parents, parent_if) ==
    IF parents = <<>> THEN [result |-> FALSE, parent_if |-> parent_if]
    ELSE IF Head(parents).type \in FunctionTypes
    THEN [result |-> TRUE, parent_if |-> parent_if]
    ELSE _inside_function(node, Tail(parents),
                          IF Head(parents).type = "If" /\ node.type = "ImportFrom"
                          THEN Head(parents) ELSE parent_if)

\* CircularImportRule.visit_ImportFrom (an Import is in no statement of the model)
CircularImportRule_visit(self, node, parents) ==
    IF node.type # "ImportFrom" THEN self
    ELSE LET inside == _inside_function(node, parents, NoTree)
             inner == /\ inside.result
                      /\ \/ node.level # 0
                         \/ node.module # <<>> /\ Contains(node.module, ".")
             first == IF inner
                      THEN Reported(self, report(CircularImportRule_strings.category, "MEDIUM",
                                                 node.lineno, CircularImportRule_strings.impact,
                                                 self.filename
                                                     \o CircularImportRule_strings.inner_import))
                      ELSE self
         IN  IF /\ inside.parent_if # NoTree
                /\ inside.parent_if.test.type = "Attribute"
                /\ inside.parent_if.test.attr = "TYPE_CHECKING"
             THEN Reported(first, report(CircularImportRule_strings.category, "MEDIUM",
                                         node.lineno, CircularImportRule_strings.impact,
                                         self.filename
                                             \o CircularImportRule_strings.type_checking))
             ELSE first

\* the names of S in the order of their texts
RECURSIVE SortedNames(_)
SortedNames(S) ==
    IF S = {} THEN <<>>
    ELSE LET least == CHOOSE a \in S :
                          \A b \in S \ {a} : StrLess(IdChars[a], IdChars[b])
         IN  <<least>> \o SortedNames(S \ {least})

\* repr of a list of names
ReprNames(names) ==
    <<"[">> \o Join([k \in 1..Len(names) |-> <<"'">> \o IdChars[names[k]] \o <<"'">>],
                    <<",", " ">>) \o <<"]">>

\* ThreadSafetyRule._names_written(target)
_names_written(target) ==
    LET nodes == Walk(target)
    IN  {nodes[k].id : k \in {j \in 1..Len(nodes) : nodes[j].type = "Name"}}

\* ThreadSafetyRule.visit_Module; it does not go on with generic_visit (an augmented
\* assignment is in no statement of the model)
ThreadSafetyRule_visit_Module(self, node) ==
    LET nodes == Walk(node)
        called(n) == IF n.func.type = "Name" THEN n.func.id ELSE n.func.attr
        _threads_present ==
            \E k \in 1..Len(nodes) :
                /\ nodes[k].type = "Call"
                /\ nodes[k].func.type \in {"Name", "Attribute"}
                /\ called(nodes[k]) = "Thread"
        targets(n) == {n.targets[k] : k \in 1..Len(n.targets)}
        _mutable_globals ==
            UNION {{tg.id : tg \in {x \in targets(node.body[k]) : x.type = "Name"}} :
                   k \in {j \in 1..Len(node.body) :
                             /\ node.body[j].type = "Assign"
                             /\ node.body[j].value.type \in {"Dict", "List", "Set"}}}
        writes(n) ==
            IF n.type = "Assign"
            THEN (UNION {_names_written(tg) : tg \in targets(n)}) \cap _mutable_globals
            ELSE IF /\ n.type = "Call"
                    /\ n.func.type = "Attribute"
                    /\ n.func.value.type = "Name"
                    /\ n.func.value.id \in _mutable_globals
            THEN {n.func.value.id}
            ELSE {}
        _global_writes == UNION {writes(nodes[k]) : k \in 1..Len(nodes)}
        lines == {nodes[k].lineno :
                     k \in {j \in 1..Len(nodes) :
                               nodes[j].type = "Name" /\ nodes[j].id \in _global_writes}}
        state == [_threads_present |-> _threads_present,
                  _mutable_globals |-> _mutable_globals,
                  _global_writes |-> _global_writes] @@ self
    IN  IF _threads_present /\ _global_writes # {}
        THEN Reported(state, report(ThreadSafetyRule_strings.category, "MEDIUM",
                                    IF lines # {} THEN Min(lines) ELSE 1,
                                    ThreadSafetyRule_strings.impact,
                                    self.filename \o ThreadSafetyRule_strings.prefix
                                        \o ReprNames(SortedNames(_global_writes))
                                        \o ThreadSafetyRule_strings.suffix))
        ELSE state

\* the texts of ConcurrencyRule
ConcurrencyRule_strings ==
    [category |->
        <<"C", "o", "n", "c", "u", "r", "r", "e", "n", "c", "y">>,
     impact |->
        <<"R", "a", "c", "e", " ", "c", "o", "n", "d", "i", "t", "i", "o", "n", "s",
        ",", " ", "z", "o", "m", "b", "i", "e", " ", "p", "r", "o", "c", "e", "s",
        "s", "e", "s", ",", " ", "o", "r", " ", "p", "l", "a", "t", "f", "o", "r",
        "m", "-", "s", "p", "e", "c", "i", "f", "i", "c", " ", "h", "a", "n", "g",
        "s", ".">>,
     chained_thread |->
        <<"T", "h", "r", "e", "a", "d", " ", "s", "t", "a", "r", "t", "e", "d", " ",
        "w", "i", "t", "h", "o", "u", "t", " ", "a", " ", "m", "a", "t", "c", "h",
        "i", "n", "g", " ", "j", "o", "i", "n", "(", ")", ";", " ", "e", "n", "s",
        "u", "r", "e", " ", "a", " ", "j", "o", "i", "n", "(", ")", " ", "i", "n",
        " ", "t", "h", "i", "s", " ", "c", "o", "d", "e", " ", "p", "a", "t", "h",
        ".">>,
     chained_process |->
        <<"P", "r", "o", "c", "e", "s", "s", " ", "s", "t", "a", "r", "t", "e", "d",
        " ", "w", "i", "t", "h", "o", "u", "t", " ", "a", " ", "m", "a", "t", "c",
        "h", "i", "n", "g", " ", "j", "o", "i", "n", "(", ")", ";", " ", "e", "n",
        "s", "u", "r", "e", " ", "a", " ", "j", "o", "i", "n", "(", ")", " ", "i",
        "n", " ", "t", "h", "i", "s", " ", "c", "o", "d", "e", " ", "p", "a", "t",
        "h", ".">>,
     import_time |->
        <<"m", "u", "l", "t", "i", "p", "r", "o", "c", "e", "s", "s", "i", "n", "g",
        " ", "o", "b", "j", "e", "c", "t", " ", "c", "r", "e", "a", "t", "e", "d",
        " ", "a", "t", " ", "i", "m", "p", "o", "r", "t", " ", "t", "i", "m", "e",
        ";", " ", "p", "r", "o", "t", "e", "c", "t", " ", "w", "i", "t", "h", " ",
        "i", "f", " ", "_", "_", "n", "a", "m", "e", "_", "_", " ", "=", "=", " ",
        "'", "_", "_", "m", "a", "i", "n", "_", "_", "'", ":">>,
     thread |->
        <<"T", "h", "r", "e", "a", "d", " ", "\"">>,
     process |->
        <<"P", "r", "o", "c", "e", "s", "s", " ", "\"">>,
     not_joined |->
        <<"\"", " ", "s", "t", "a", "r", "t", "e", "d", " ", "b", "u", "t", " ", "n",
        "o", "t", " ", "j", "o", "i", "n", "e", "d", " ", "i", "n", " ", "s", "c",
        "o", "p", "e", " ", "\"">>,
     close |->
        <<"\"", ".">>,
     module_scope |->
        <<"<", "m", "o", "d", "u", "l", "e", ">">>]

\* the texts of ComplexityRule
ComplexityRule_strings ==
    [category |->
        <<"M", "a", "i", "n", "t", "a", "i", "n", "a", "b", "i", "l", "i", "t", "y">>,
     impact |->
        <<"H", "i", "g", "h", " ", "c", "o", "m", "p", "l", "e", "x", "i", "t", "y",
        "/", "s", "i", "z", "e", " ", "r", "e", "d", "u", "c", "e", "s", " ", "r",
        "e", "a", "d", "a", "b", "i", "l", "i", "t", "y", " ", "a", "n", "d", " ",
        "i", "n", "c", "r", "e", "a", "s", "e", "s", " ", "b", "u", "g", " ", "r",
        "i", "s", "k", ".">>,
     FunctionDef |->
        <<":", " ", "F", "u", "n", "c", "t", "i", "o", "n", " ", "'">>,
     AsyncFunctionDef |->
        <<":", " ", "A", "s", "y", "n", "c", " ", "f", "u", "n", "c", "t", "i", "o",
        "n", " ", "'">>,
     ClassDef |->
        <<":", " ", "C", "l", "a", "s", "s", " ", "'">>,
     too_complex |->
        <<"'", " ", "t", "o", "o", " ", "c", "o", "m", "p", "l", "e", "x", " ", "(",
        "C", "=">>,
     loc |->
        <<",", " ", "L", "O", "C", "=">>,
     thresholds |->
        <<")", ";", " ", "t", "h", "r", "e", "s", "h", "o", "l", "d", "s", ":", " ",
        "C", ">">>,
     or_loc |->
        <<" ", "o", "r", " ", "L", "O", "C", ">">>,
     close |->
        <<".">>]

\* ConcurrencyRule._collect_main_blocks(tree): the first and the last line of every
\* if __name__ == "__main__": statement
_collect_main_blocks(t) ==
    LET nodes == Walk(t)
        guard(n) ==
            /\ n.type = "If"
            /\ n.test.type = "Compare"
            /\ n.test.left.type = "Name" /\ n.test.left.id = "__name__"
            /\ n.test.ops # <<>> /\ n.test.ops[1] = "Eq"
            /\ n.test.comparators # <<>>
            /\ n.test.comparators[1].type = "Constant"
            /\ "value" \in DOMAIN n.test.comparators[1]
            /\ n.test.comparators[1].value = "__main__"
        last(n) == LET below == Walk(n)
                   IN  Max({below[k].lineno :
                               k \in {j \in 1..Len(below) : "lineno" \in DOMAIN below[j]}})
    IN  {<<nodes[k].lineno, last(nodes[k])>> : k \in {j \in 1..Len(nodes) : guard(nodes[j])}}

\* ConcurrencyRule._in_main(lineno, main_blocks)
_in_main(lineno, main_blocks) == \E b \in main_blocks : b[1] <= lineno /\ lineno <= b[2]

\* ConcurrencyRule._is_ctor(call_node, names, module, ctor)
_is_ctor(call_node, names, module, ctor) ==
    LET f == call_node.func
    IN  \/ /\ f.type = "Attribute" /\ f.value.type = "Name"
           /\ f.value.id = module /\ f.attr = ctor
        \/ f.type = "Name" /\ f.id \in names

\* the names a from-import of the module gives to the class: the first loop of
\* ConcurrencyRule.check
ImportedAs(t, module, class) ==
    LET nodes == Walk(t)
    IN  UNION {{n.names[a].name : a \in {b \in 1..Len(n.names) : n.names[b].name = class}} :
               n \in {nodes[k] : k \in {j \in 1..Len(nodes) :
                                          /\ nodes[j].type = "ImportFrom"
                                          /\ nodes[j].module = module}}}


\* the findings 'started but not joined' of a scope, for the names in sorted order
NotJoined(self, started, joined, start_lines, kind, scope_name) ==
    LET left == SortedNames(started \ joined)
    IN  [k \in 1..Len(left) |->
            make(self,
                 [int |-> IF left[k] \in DOMAIN start_lines THEN start_lines[left[k]] ELSE 1],
                 kind \o IdChars[left[k]] \o ConcurrencyRule_strings.not_joined
                     \o scope_name \o ConcurrencyRule_strings.close)]

\* analyze_scope(body_nodes, scope_name, in_module): the issues it appends.  Its loop
\* goes over ast.walk of the body node after node; what the sets and dicts of the
\* scope hold when node k is looked at is read off the nodes 1..k
analyze_scope(self, body_nodes, scope_name, in_module, names, main_blocks) ==
    LET nodes == Walk([type |-> "Module", body |-> body_nodes])
        n == Len(nodes)
        thread_ctor(call) == _is_ctor(call, names.threading, "threading", "Thread")
        proc_ctor(call) == _is_ctor(call, names.process, "multiprocessing", "Process")
        pool_ctor(call) == _is_ctor(call, names.pool, "multiprocessing", "Pool")
        ctor(kind, call) == IF kind = "thread" THEN thread_ctor(call) ELSE proc_ctor(call)
        bound(node) == {node.targets[k].id :
                           k \in {j \in 1..Len(node.targets) : node.targets[j].type = "Name"}}
        \* thread_vars, proc_vars after node k: the targets of the assignments of a
        \* constructor call so far
        vars_at(kind, k) ==
            UNION {bound(nodes[j]) :
                      j \in {i \in 1..k : /\ nodes[i].type = "Assign"
                                          /\ nodes[i].value.type = "Call"
                                          /\ ctor(kind, nodes[i].value)}}
        method(k) == nodes[k].type = "Call" /\ nodes[k].func.type = "Attribute"
        \* the calls of name on a variable that is in the set by then
        calls_of(kind, name) ==
            {k \in 1..n : /\ method(k)
                          /\ nodes[k].func.value.type = "Name"
                          /\ nodes[k].func.attr = name
                          /\ nodes[k].func.value.id \in vars_at(kind, k)}
        on(ks) == {nodes[k].func.value.id : k \in ks}
        \* setdefault keeps the line of the first start of the variable
        start_lines(kind) ==
            LET starts == calls_of(kind, "start")
            IN  [id \in on(starts) |->
                    nodes[Min({k \in starts : nodes[k].func.value.id = id})].lineno]
        chained(k) ==
            method(k) /\ nodes[k].func.attr = "start" /\ nodes[k].func.value.type = "Call"
        at_import(k) ==
            /\ in_module /\ nodes[k].type = "Call"
            /\ pool_ctor(nodes[k]) \/ proc_ctor(nodes[k])
            /\ ~_in_main(nodes[k].lineno, main_blocks)
        issues_at(k) ==
            (IF chained(k) /\ thread_ctor(nodes[k].func.value)
             THEN <<make(self, [int |-> nodes[k].lineno],
                         ConcurrencyRule_strings.chained_thread)>>
             ELSE <<>>)
            \o (IF chained(k) /\ proc_ctor(nodes[k].func.value)
                THEN <<make(self, [int |-> nodes[k].lineno],
                            ConcurrencyRule_strings.chained_process)>>
                ELSE <<>>)
            \o (IF at_import(k)
                THEN <<make(self, [int |-> nodes[k].lineno],
                            ConcurrencyRule_strings.import_time)>>
                ELSE <<>>)
    IN  Concat([k \in 1..n |-> issues_at(k)])
            \o NotJoined(self, on(calls_of("thread", "start")), on(calls_of("thread", "join")),
                         start_lines("thread"), ConcurrencyRule_strings.thread, scope_name)
            \o NotJoined(self, on(calls_of("proc", "start")), on(calls_of("proc", "join")),
                         start_lines("proc"), ConcurrencyRule_strings.process, scope_name)

\* ConcurrencyRule.check: the module scope, then the body of every function
\* definition of ast.walk(tree), each adding to the one list of issues
ConcurrencyRule(filename, t, w) ==
    IF t = NoTree THEN <<>>
    ELSE LET self == [category |-> ConcurrencyRule_strings.category, priority |-> "MEDIUM",
                      impact |-> ConcurrencyRule_strings.impact]
             main_blocks == _collect_main_blocks(t)
             names == [threading |-> ImportedAs(t, IdChars.threading, "Thread"),
                       process |-> ImportedAs(t, IdChars.multiprocessing, "Process"),
                       pool |-> ImportedAs(t, IdChars.multiprocessing, "Pool")]
             fns == SelectSeq(Walk(t), LAMBDA node : node.type \in FunctionTypes)
         IN  analyze_scope(self, t.body, ConcurrencyRule_strings.module_scope, TRUE,
                           names, main_blocks)
                 \o Concat([k \in 1..Len(fns) |->
                               analyze_scope(self, fns[k].body, IdChars[fns[k].name],
                                             FALSE, names, main_blocks)])

\* ComplexityRule._complexity(node)
_complexity(node) ==
    LET nodes == Walk(node)
    IN  1 + Cardinality({k \in 1..Len(nodes) :
                            nodes[k].type \in {"If", "For", "While", "Try", "With", "BoolOp",
                                               "IfExp", "comprehension", "Match"}})

\* ComplexityRule._loc(node)
_loc(node) ==
    IF "end_lineno" \in DOMAIN node /\ node.lineno # 0 /\ node.end_lineno # 0
    THEN (node.end_lineno - node.lineno) + 1
    ELSE 0

\* ComplexityRule._check_named(node, kind, name), with the kind and the name of the
\* node
_check_named(self, node) ==
    LET cplx == _complexity(node)
        loc == _loc(node)
    IN  IF cplx > self.max_complexity \/ loc > self.max_lines
        THEN Reported(self, report(ComplexityRule_strings.category, "LOW", node.lineno,
                                   ComplexityRule_strings.impact,
                                   self.filename \o ComplexityRule_strings[node.type]
                                       \o IdChars[node.name]
                                       \o ComplexityRule_strings.too_complex \o str(cplx)
                                       \o ComplexityRule_strings.loc \o str(loc)
                                       \o ComplexityRule_strings.thresholds
                                       \o str(self.max_complexity)
                                       \o ComplexityRule_strings.or_loc \o str(self.max_lines)
                                       \o ComplexityRule_strings.close))
        ELSE self

\* ComplexityRule.visit_FunctionDef, visit_AsyncFunctionDef and visit_ClassDef; each
\* goes on with generic_visit
ComplexityRule_visit(self, node) ==
    IF node.type \in {"FunctionDef", "AsyncFunctionDef", "ClassDef"}
    THEN _check_named(self, node)
    ELSE self

\* ImportOrderRule.visit_Module: lines holds the import statements of node.body.  No
\* text of the model has an import at the top level of the module (the from-imports
\* are inside an if or a def), so lines is empty, neither loop over sorted(lines)
\* runs, block stays empty and nothing is reported.  It does not go on with
\* generic_visit.
ImportOrderRule_visit_Module(self, node) == self

\* the visit_ method the class of self has for the node, applied: the instance after
\* it, and whether it went on with generic_visit; a class with no method for the node
\* goes on with generic_visit (NodeVisitor.visit).  The other visit_ methods
\* (IgnoredReturnValueRule.visit_Expr, OpenEncodingRule.visit_Call,
\* MagicLiteralRule.visit_Assign, visit_Compare and visit_Return,
\* ExceptionChainingRule.visit_ExceptHandler) report nothing on the statements of the
\* model and go on with generic_visit.
VisitNode(self, node, parents) ==
    CASE self.class = "MissingDocstringRule" ->
            [self |-> MissingDocstringRule_visit(self, node), descend |-> TRUE]
      [] self.class = "EmptyExceptBodyRule" ->
            [self |-> EmptyExceptBodyRule_visit(self, node),
             descend |-> ~(node.type = "ExceptHandler" /\ node.body = <<>>)]
      [] self.class = "CircularImportRule" ->
            [self |-> CircularImportRule_visit(self, node, parents), descend |-> TRUE]
      [] self.class = "ComplexityRule" ->
            [self |-> ComplexityRule_visit(self, node), descend |-> TRUE]
      [] self.class = "ImportOrderRule" /\ node.type = "Module" ->
            [self |-> ImportOrderRule_visit_Module(self, node), descend |-> FALSE]
      [] self.class = "ThreadSafetyRule" /\ node.type = "Module" ->
            [self |-> ThreadSafetyRule_visit_Module(self, node), descend |-> FALSE]
      [] OTHER -> [self |-> self, descend |-> TRUE]

\* NodeVisitor.visit and generic_visit
RECURSIVE visit(_, _, _), generic_visit(_, _, _)
visit(self, node, parents) ==
    LET visited == VisitNode(self, node, parents)
    IN  IF visited.descend
        THEN generic_visit(visited.self, Children(node), <<node>> \o parents)
        ELSE visited.self

generic_visit(self, nodes, parents) ==
    IF nodes = <<>> THEN self
    ELSE generic_visit(visit(self, Head(nodes), parents), Tail(nodes), parents)

\* Rule.check, lines 52-53, with the accumulator left as it is
StartCheck_IssuesKept(self, filename) ==
    IF "_issues" \in DOMAIN self
    THEN [filename |-> filename] @@ self
    ELSE [filename |-> filename, _issues |-> <<>>] @@ self

\* Rule.check, lines 52-53: self.filename = filename; self._issues = []
StartCheck(self, filename) == [filename |-> filename, _issues |-> <<>>] @@ self

\* Rule.check of the visitor family on the instance self: the instance after it and
\* the list it returns
Rule_check(self, filename, t, w) ==
    IF t = NoTree THEN [self |-> self, issues |-> <<>>]
    ELSE LET done == visit(StartCheck(self, filename), t, <<>>)
         IN  [self |-> done, issues |-> done._issues]

\* A rule that returns at once when there is no tree and otherwise looks for
\* nodes that no statement of the model builds
TreeRule(filename, t, w) == IF t = NoTree THEN <<>> ELSE <<>>

ALL_RULES ==
    <<"BareOrBroadExcept", "AssertForRuntime", "MutableDefaultArgs", "OpenWithoutWith",
      "FileModeMismatch", "NonPythonicLoops", "LenComparisons", "IdentityVsEquality",
      "TypeCheckRule", "UnsafeCSVParsing", "EvalExecUse", "DangerousFunctions",
      "ConcurrencyRule", "ExitCallsInLibrary", "UnusedImports", "UnusedVariables",
      "WildcardImports", "ShadowBuiltins", "DangerousTokenMagicNumbers", "PrintStatements",
      "FStringMissing", "NamingConventions", "UndefinedNameRule", "DictAccessGuard",
      "ReturnAnnotationMismatch", "TodoComments", "PlatformSpecificPaths",
      "PotentialStringCastNeeded", "ExceptionChainingRule", "EmptyExceptBodyRule",
      "MagicLiteralRule", "MissingDocstringRule", "ComplexityRule",
      "IgnoredReturnValueRule", "ImportOrderRule", "CircularImportRule",
      "OpenEncodingRule", "ThreadSafetyRule">>

\* the rules that inherit Rule.check and report from visit_* hooks
VisitorRules ==
    {"ExceptionChainingRule", "EmptyExceptBodyRule", "MagicLiteralRule",
     "MissingDocstringRule", "ComplexityRule", "IgnoredReturnValueRule",
     "ImportOrderRule", "CircularImportRule", "OpenEncodingRule", "ThreadSafetyRule"}

\* the instances of ALL_RULES as constructed: each with its class, ComplexityRule
\* with its two thresholds, none with a filename or an accumulator yet
FreshInstances ==
    [name \in SetOf(ALL_RULES) |->
        IF name = "ComplexityRule"
        THEN [class |-> name, max_complexity |-> 10, max_lines |-> 50]
        ELSE [class |-> name]]

\* the attributes a check of the class sets on nodes of the tree: parent on every node
\* below the tree (Rule.check, ThreadSafetyRule.visit_Module), parent_if on a
\* from-import (CircularImportRule._inside_function)
TreeAttributesSet(class, t) ==
    IF class \notin VisitorRules \/ t = NoTree THEN {}
    ELSE (IF Len(Walk(t)) > 1 THEN {"parent"} ELSE {})
         \cup (IF /\ class = "CircularImportRule"
                  /\ \E k \in 1..Len(VisitUnder(t, <<>>)) :
                        LET at == VisitUnder(t, <<>>)[k]
                        IN  /\ at.node.type = "ImportFrom"
                            /\ _inside_function(at.node, at.parents, NoTree).parent_if
                                   # NoTree
               THEN {"parent_if"} ELSE {})

\* no line_spec
NoLine == [lines |-> <<>>, none |-> TRUE]

\* check(filename, tree, text) of a rule that builds and returns its own list
DirectCheck(name, filename, t, w) ==
    CASE name = "BareOrBroadExcept" -> BareOrBroadExcept(filename, t, w)
      [] name = "AssertForRuntime" -> AssertForRuntime(filename, t, w)
      [] name = "MutableDefaultArgs" -> MutableDefaultArgs(filename, t, w)
      [] name = "EvalExecUse" -> EvalExecUse(filename, t, w)
      [] name = "DangerousFunctions" -> DangerousFunctions(filename, t, w)
      [] name = "ConcurrencyRule" -> ConcurrencyRule(filename, t, w)
      [] name = "DangerousTokenMagicNumbers" -> DangerousTokenMagicNumbers(filename, t, w)
      [] name = "PrintStatements" -> PrintStatements(filename, t, w)
      [] name = "FStringMissing" -> FStringMissing(filename, t, w)
      [] name = "UndefinedNameRule" -> UndefinedNameRule(filename, t, w)
      [] name = "TodoComments" -> TodoComments(filename, t, w)
      [] name = "PlatformSpecificPaths" -> PlatformSpecificPaths(filename, t, w)
      [] OTHER -> TreeRule(filename, t, w)

\* self.check(filename, tree, text): the instance after it and the list it returns
Invoke(self, filename, t, w) ==
    IF self.class \in VisitorRules THEN Rule_check(self, filename, t, w)
    ELSE [self |-> self, issues |-> DirectCheck(self.class, filename, t, w)]

\* rule.check(filename, tree, text) for the rule of that name, as constructed
check(name, filename, t, w) == Invoke(FreshInstances[name], filename, t, w).issues

----------------------------------------------------------------------------
(* The analysis driver and main.                                           *)

\* the text of a file that cannot be opened or decoded
Unreadable == <<"<unreadable>">>

\* ' more'
more == <<" ", "m", "o", "r", "e">>

\* list[:k]
Prefix(list, k) ==
    IF k >= 0
    THEN SubSeq(list, 1, IF k < Len(list) THEN k ELSE Len(list))
    ELSE SubSeq(list, 1, IF Len(list) + k > 0 THEN Len(list) + k ELSE 0)

\* the truncation that counts every entry in '+K more', the kept ones too
Truncated_CountsAll(iss, max_lines) ==
    IF max_lines # NoInt /\ max_lines[1] # 0 /\ Contains(iss.impacted_lines, ",")
    THEN LET lines == Split(iss.impacted_lines, ",")
         IN  IF Len(lines) > max_lines[1]
             THEN Issue(iss.category, iss.priority,
                        Join(Prefix(lines, max_lines[1]), <<",">>) \o <<",", "+">>
                            \o str(Len(lines)) \o more,
                        iss.potential_impact, iss.description)
             ELSE iss
    ELSE iss

\* the truncation of run_on_file: what is appended for an issue that passed the
\* priority filter
Truncated(iss, max_lines) ==
    IF max_lines # NoInt /\ max_lines[1] # 0 /\ Contains(iss.impacted_lines, ",")
    THEN LET lines == Split(iss.impacted_lines, ",")
         IN  IF Len(lines) > max_lines[1]
             THEN Issue(iss.category, iss.priority,
                        Join(Prefix(lines, max_lines[1]), <<",">>) \o <<",", "+">>
                            \o str(Len(lines) - max_lines[1]) \o more,
                        iss.potential_impact, iss.description)
             ELSE iss
    ELSE iss

\* FilterFindings with a strict comparison: an issue at the threshold is dropped
RECURSIVE FilterFindings_AboveOnly(_, _, _)
FilterFindings_AboveOnly(findings, min_priority, max_lines) ==
    IF findings = <<>> THEN <<>>
    ELSE (IF RankGet(Head(findings).priority, 1) > RankGet(min_priority, 1)
          THEN <<Truncated(Head(findings), max_lines)>>
          ELSE <<>>)
         \o FilterFindings_AboveOnly(Tail(findings), min_priority, max_lines)

\* the inner loop of run_on_file over the findings of one rule
RECURSIVE FilterFindings(_, _, _)
FilterFindings(findings, min_priority, max_lines) ==
    IF findings = <<>> THEN <<>>
    ELSE (IF RankGet(Head(findings).priority, 1) >= RankGet(min_priority, 1)
          THEN <<Truncated(Head(findings), max_lines)>>
          ELSE <<>>)
         \o FilterFindings(Tail(findings), min_priority, max_lines)

\* the outer loop of run_on_file with the findings of a later rule put first
RunRules_LastRuleFirst(rules, path, t, w, min_priority, max_lines) ==
    Concat([i \in 1..Len(rules) |->
               FilterFindings(check(rules[Len(rules) + 1 - i], path, t, w),
                              min_priority, max_lines)])

\* the outer loop of run_on_file over the rules
RunRules(rules, path, t, w, min_priority, max_lines) ==
    Concat([i \in 1..Len(rules) |->
               FilterFindings(check(rules[i], path, t, w), min_priority, max_lines)])

\* run_on_file(path, min_priority, max_lines), where w is what reading path gives
run_on_file(path, w, min_priority, max_lines) ==
    IF w = Unreadable THEN <<>>
    ELSE LET t == _safe_parse(w)
         IN  RunRules(ALL_RULES, path, t, w, min_priority, max_lines)

\* the failing threshold at the end of main, met when worst > threshold only
ExitCode_AboveOnly(all_issues, fail_on) ==
    IF fail_on # None
    THEN LET threshold == PRIORITY_RANK[fail_on]
             ranks == {RankGet(all_issues[i][2].priority, 0) : i \in 1..Len(all_issues)}
             worst == Max(ranks \cup {0})
         IN  IF worst > threshold THEN 2 ELSE 0
    ELSE 0

\* the failing threshold at the end of main, and its return value
ExitCode(all_issues, fail_on) ==
    IF fail_on # None
    THEN LET threshold == PRIORITY_RANK[fail_on]
             ranks == {RankGet(all_issues[i][2].priority, 0) : i \in 1..Len(all_issues)}
             worst == Max(ranks \cup {0})
         IN  IF worst >= threshold THEN 2 ELSE 0
    ELSE 0

----------------------------------------------------------------------------
(* The line-spec functions on their own: _parse_lines and _compress_lines  *)
(* applied to every string and every list within the bounds.               *)

\* characters of the line-spec strings tried: digits, the two separators, a
\* sign, a blank and a letter (as in '12,+3 more')
LineChars == {"1", "2", "3", ",", "-", "+", " ", "m"}

\* no number of w has more than MaxDigits digits
DigitsWithin(w) ==
    \A i \in 1..(Len(w) - MaxDigits) : \E j \in 0..MaxDigits : ~IsDigit(w[i + j])

LineStrings ==
    {w \in UNION {[1..n -> LineChars] : n \in 0..MaxLen} : DigitsWithin(w)}

NumLists == UNION {[1..n -> 0..MaxLineNo] : n \in 0..MaxNums}

NoText == <<>>

NoArgs == [file |-> <<>>, min_priority |-> "LOW", fail_on |-> None, max_lines |-> NoInt,
           merge_issues |-> FALSE]

\* the variables of the entry points a behaviour does not exercise
IdleLines == s = <<>> /\ nums = <<>> /\ out = <<>> /\ out2 = <<>> /\ back = <<>>
IdlePost == items = <<>> /\ input = <<>>
IdleMain ==
    /\ text = NoText /\ tree = NoTree /\ args = NoArgs /\ path_kind = "file"
    /\ written = <<>> /\ exit_code = -1
IdleRules ==
    /\ rule = 0 /\ found = <<>> /\ line_spec = NoLine
    /\ inst = FreshInstances /\ attrs = {} /\ calls = 0

InitLines ==
    /\ mode = "lines"
    /\ pc = "start"
    /\ \/ s \in LineStrings /\ nums = <<>>
       \/ s = <<>> /\ nums \in NumLists
    /\ out = <<>> /\ out2 = <<>> /\ back = <<>>
    /\ IdlePost /\ IdleMain /\ IdleRules

\* compress(parse(s)), and the same applied to its own result
ParseCompress ==
    /\ mode = "lines" /\ pc = "start"
    /\ out' = _compress_lines(_parse_lines(s))
    /\ out2' = _compress_lines(_parse_lines(out'))
    /\ back' = _parse_lines(out')
    /\ pc' = "parsed"
    /\ UNCHANGED <<mode, s, nums, postVars, mainVars, rulesVars>>

\* compress(nums), and its result parsed back
Compress ==
    /\ mode = "lines" /\ pc = "start"
    /\ out' = _compress_lines(nums)
    /\ back' = _parse_lines(out')
    /\ out2' = _compress_lines(back')
    /\ pc' = "compressed"
    /\ UNCHANGED <<mode, s, nums, postVars, mainVars, rulesVars>>

NextLines == ParseCompress \/ Compress

SpecLines == InitLines /\ [][NextLines]_vars

----------------------------------------------------------------------------
(* Claims about the line-spec functions.                                   *)

\* C3: compress-after-parse is idempotent: for every string s,
\* compress(parse(compress(parse(s)))) = compress(parse(s)).
C3_CompressParseIdempotent ==
    pc = "parsed" => out2 = out

\* C3 witness: a string with a malformed part and an unsorted pair, whose
\* compressed form is a range, went through compress-after-parse twice.
C3_Witness ==
    /\ pc = "parsed"
    /\ s = <<"2", ",", "m", ",", "1">>
    /\ out = <<"1", "-", "2">>

\* the first elements of the maximal runs of consecutive integers of S
RunStarts(S) == {x \in S : (x - 1) \notin S}

\* the last element of the maximal run that starts at a
RunEnd(S, a) == Min({y \in S : y >= a /\ (y + 1) \notin S})

\* the canonical encoding of the set S, stated from the runs of S
Canonical(S) ==
    LET starts == Sorted(RunStarts(S))
    IN  Join([k \in 1..Len(starts) |->
                 IF RunEnd(S, starts[k]) = starts[k]
                 THEN str(starts[k])
                 ELSE str(starts[k]) \o <<"-">> \o str(RunEnd(S, starts[k]))],
             <<",">>)

\* C4: _compress_lines(nums) is the canonical encoding of set(nums): the maximal
\* runs in ascending order, 'a-b' for a run and 'a' for an isolated value, and
\* _parse_lines of it is sorted(set(nums)).
C4_CompressCanonicalLossless ==
    pc = "compressed" =>
        /\ out = Canonical(SetOf(nums))
        /\ back = Sorted(SetOf(nums))

\* C4 witness: a list with a duplicate, out of order, holding a run that
\* crosses from one digit to two.
C4_Witness ==
    /\ pc = "compressed"
    /\ nums = <<10, 9, 9>>
    /\ out = <<"9", "-", "1", "0">>
    /\ back = <<9, 10>>

----------------------------------------------------------------------------
(* merge_same_issue_across_lines and sort_findings called on their own,    *)
(* on every list of at most MaxItems (filename, Issue) pairs of a pool.    *)

a_py == <<"a", ".", "p", "y">>
b_py == <<"b", ".", "p", "y">>
b_a_py == <<"b", "/", "a", ".", "p", "y">>
a_b_py == <<"a", "/", "b", ".", "p", "y">>
Cat == <<"C", "a", "t">>
Ca == <<"C", "a">>
Dog == <<"D", "o", "g">>
ImpI == <<"I">>
ImpIblank == <<"I", " ">>
ImpJ == <<"J">>
x_y == <<"x", " ", "y">>
x__y == <<"x", " ", " ", "y">>
zz == <<"z">>

\* The pool: one merge key written in several ways (blanks in impact and
\* description, every priority, every form of line-spec that Rule.make and the
\* truncation of run_on_file write), the keys that differ from it in one
\* component, and items that differ in one component of the sort key.
Pool ==
    { <<a_py, Issue(Cat, "LOW", <<"1">>, ImpI, x_y)>>,
      <<a_py, Issue(Cat, "HIGH", <<"3">>, ImpI, x_y)>>,
      <<a_py, Issue(Cat, "MEDIUM", <<"2", "-", "4">>, ImpI, x__y)>>,
      <<a_py, Issue(Cat, "LOW", <<"5", ",", "1">>, ImpIblank, x_y)>>,
      <<a_py, Issue(Cat, "HIGH", <<"1", ",", "+", "2">> \o more, ImpI, x_y)>>,
      <<a_py, Issue(Cat, "MEDIUM", <<"3", "-", "1">>, ImpI, x_y)>>,
      <<b_py, Issue(Cat, "LOW", <<"7">>, ImpI, x_y)>>,
      <<a_py, Issue(Dog, "MEDIUM", <<"7">>, ImpI, x_y)>>,
      <<a_py, Issue(Cat, "HIGH", <<"1", "2">>, ImpJ, x_y)>>,
      <<b_a_py, Issue(Cat, "HIGH", <<"1", "2">>, ImpI, zz)>>,
      <<a_b_py, Issue(Cat, "HIGH", <<"3", ",", "7", ",", "9">>, ImpI, zz)>>,
      <<b_a_py, Issue(Ca, "MEDIUM", <<"2", ",", "+", "3">> \o more, ImpI, zz)>>,
      <<b_a_py, Issue(Cat, "HIGH", <<"1", "2", "-", "1", "3">>, ImpI, zz)>> }

ItemLists == UNION {[1..n -> Pool] : n \in 0..MaxItems}

InitPost ==
    /\ mode = "post"
    /\ pc = "start"
    /\ items \in ItemLists
    /\ input = <<>>
    /\ IdleLines /\ IdleMain /\ IdleRules

\* merged = merge_same_issue_across_lines(items)
MergeCall ==
    /\ mode = "post" /\ pc = "start"
    /\ input' = items
    /\ items' = merge_same_issue_across_lines(items)
    /\ pc' = "merged"
    /\ UNCHANGED <<mode, linesVars, mainVars, rulesVars>>

\* sorted_items = sort_findings(items), on a raw or on a merged list
SortCall ==
    /\ mode = "post" /\ pc \in {"start", "merged"}
    /\ input' = items
    /\ items' = sort_findings(items)
    /\ pc' = "sorted"
    /\ UNCHANGED <<mode, linesVars, mainVars, rulesVars>>

NextPost == MergeCall \/ SortCall

SpecPost == InitPost /\ [][NextPost]_vars

----------------------------------------------------------------------------
(* main on one file, stage by stage, and the rules checked one at a time.  *)

\* the lines a file is written from
SampleLines ==
    {pass_, eval_call, assert_1, pass_todo, bad_def, bad_fixme, bad_path_type}

\* every file of at most MaxTextLines sample lines
Texts ==
    {Join(lines, <<"\n">>) : lines \in UNION {[1..n -> SampleLines] : n \in 0..MaxTextLines}}

src_m_py == <<"s", "r", "c", "/", "m", ".", "p", "y">>

src_m_txt == <<"s", "r", "c", "/", "m", ".", "t", "x", "t">>
src == <<"s", "r", "c">>
src_M_PY == <<"s", "r", "c", "/", "M", ".", "P", "Y">>

\* the command lines: a file argument with and without the .py ending, every
\* --min-priority and --fail-on, --max-lines absent or 1, with and without
\* --merge-issues
ArgsSet ==
    [file : {src_m_py, src_M_PY, src_m_txt, src},
     min_priority : {"LOW", "MEDIUM", "HIGH"},
     fail_on : {None, "LOW", "MEDIUM", "HIGH"},
     max_lines : {NoInt, <<1>>},
     merge_issues : BOOLEAN]

\* line.lower()
lower(w) ==
    [i \in 1..Len(w) |->
        IF \E k \in 1..26 : Uppers[k] = w[i]
        THEN AsciiFrom97[CHOOSE k \in 1..26 : Uppers[k] = w[i]]
        ELSE w[i]]

\* w.endswith(suffix)
EndsWith(w, suffix) ==
    Len(suffix) <= Len(w) /\ SubSeq(w, Len(w) - Len(suffix) + 1, Len(w)) = suffix

\* the validation that takes any existing path for a source file
InputError_ExtensionUnchecked(file, kind) == kind = "missing" \/ kind = "dir"

\* main: the three tests of args.file that end in parser.error
InputError(file, kind) ==
    \/ kind = "missing"
    \/ kind = "dir"
    \/ ~EndsWith(lower(file), <<".", "p", "y">>)

\* the parsed command line, what is at the path, and what the file holds
Init ==
    /\ mode = "main"
    /\ pc = "start"
    /\ args \in ArgsSet
    /\ \/ path_kind = "file" /\ args.file = src_m_py /\ text \in Texts \cup {Unreadable}
       \/ path_kind = "file" /\ args.file \in {src_m_txt, src_M_PY} /\ text = pass_todo
       \/ path_kind = "dir" /\ args.file = src /\ text = NoText
       \/ path_kind = "missing" /\ text = NoText
    /\ tree = NoTree /\ written = <<>> /\ exit_code = -1
    /\ IdleLines /\ IdlePost /\ IdleRules

\* parser.error(...): the message and usage on stderr, then sys.exit(2)
Reject ==
    /\ mode = "main" /\ pc = "start"
    /\ InputError(args.file, path_kind)
    /\ exit_code' = 2
    /\ pc' = "exited"
    /\ UNCHANGED <<mode, linesVars, postVars, text, tree, args, path_kind, written,
                   rulesVars>>

\* the shared instances of ALL_RULES after the loop of run_on_file has called check
\* on each of them: Rule.check sets filename and _issues on a rule of the visitor
\* family and its visit_ methods may set more; a check that builds and returns its own
\* list sets nothing on its instance
InstancesAfter(instances, path, t, w) ==
    [name \in DOMAIN instances |->
        IF name \in VisitorRules
        THEN Rule_check(instances[name], path, t, w).self
        ELSE instances[name]]

\* the attributes the checks of the loop of run_on_file have set on nodes of the tree
AttributesAfter(t) ==
    UNION {TreeAttributesSet(ALL_RULES[i], t) : i \in 1..Len(ALL_RULES)}

\* file_issues = run_on_file(...); all_issues.extend((args.file, iss) ...).  The
\* checks of run_on_file are made on the shared instances of ALL_RULES, which are as
\* constructed when main starts, and on the tree; a file that cannot be read is
\* neither parsed nor checked
Analyse ==
    /\ mode = "main" /\ pc = "start"
    /\ ~InputError(args.file, path_kind)
    /\ items' = LET file_issues == run_on_file(args.file, text, args.min_priority,
                                               args.max_lines)
                IN  [k \in 1..Len(file_issues) |-> <<args.file, file_issues[k]>>]
    /\ tree' = IF text = Unreadable THEN NoTree ELSE _safe_parse(text)
    /\ inst' = IF text = Unreadable THEN inst
               ELSE InstancesAfter(inst, args.file, tree', text)
    /\ attrs' = IF text = Unreadable THEN attrs ELSE attrs \cup AttributesAfter(tree')
    /\ input' = <<>>
    /\ pc' = "analysed"
    /\ UNCHANGED <<mode, path_kind, linesVars, text, args, written, exit_code,
                   rule, found, line_spec, calls>>

\* if args.merge_issues: all_issues = merge_same_issue_across_lines(all_issues)
Merge ==
    /\ mode = "main" /\ pc = "analysed" /\ args.merge_issues
    /\ input' = items
    /\ items' = merge_same_issue_across_lines(items)
    /\ pc' = "merged"
    /\ UNCHANGED <<mode, linesVars, mainVars, rulesVars>>

\* all_issues = sort_findings(all_issues)
Sort ==
    /\ mode = "main"
    /\ pc = "merged" \/ (pc = "analysed" /\ ~args.merge_issues)
    /\ input' = items
    /\ items' = sort_findings(items)
    /\ pc' = "sorted"
    /\ UNCHANGED <<mode, linesVars, mainVars, rulesVars>>

\* what a reporter was given: nothing when its option is absent
Given(option, all_issues) == IF option THEN <<all_issues>> ELSE <<>>

\* the reporters handed the list as it was before sort_findings
Report_BeforeSort ==
    /\ mode = "main" /\ pc = "sorted"
    /\ \E json_output, log \in BOOLEAN :
           written' = <<input, Given(json_output, input), Given(log, input)>>
    /\ pc' = "reported"
    /\ UNCHANGED <<mode, path_kind, linesVars, postVars, text, tree, args, exit_code, rulesVars>>

\* write_csv(all_issues, args.out), then write_json and write_text_log when
\* --json-output and --log are given; written holds what the three were given
Report ==
    /\ mode = "main" /\ pc = "sorted"
    /\ \E json_output, log \in BOOLEAN :
           written' = <<items, Given(json_output, items), Given(log, items)>>
    /\ pc' = "reported"
    /\ UNCHANGED <<mode, path_kind, linesVars, postVars, text, tree, args, exit_code, rulesVars>>

\* the failing threshold and the return
Exit ==
    /\ mode = "main" /\ pc = "reported"
    /\ exit_code' = ExitCode(items, args.fail_on)
    /\ pc' = "done"
    /\ UNCHANGED <<mode, path_kind, linesVars, postVars, text, tree, args, written, rulesVars>>

Next == Reject \/ Analyse \/ Merge \/ Sort \/ Report \/ Exit

Spec == Init /\ [][Next]_vars

\* every file of at most MaxStmts statements of one or more lines
Programs ==
    {Join(stmts, <<"\n">>) :
        stmts \in UNION {[1..n -> DOMAIN BlockGrammar] : n \in 1..MaxStmts}}

\* one rule of the registry applied to a text and to its tree, or to no tree
InitRules ==
    /\ mode = "rules"
    /\ pc = "start"
    /\ text \in Texts \cup Programs
    /\ tree \in {NoTree, _safe_parse(text)}
    /\ args = NoArgs /\ path_kind = "file" /\ written = <<>> /\ exit_code = -1
    /\ IdleRules
    /\ IdleLines /\ IdlePost

\* found = ALL_RULES[i].check(filename, tree, text), on the instance of the registry
Check ==
    /\ mode = "rules"
    /\ pc = "start"
    /\ \E i \in 1..Len(ALL_RULES) :
           LET returned == Invoke(inst[ALL_RULES[i]], src_m_py, tree, text)
           IN  /\ rule' = i
               /\ found' = returned.issues
               /\ inst' = [inst EXCEPT ![ALL_RULES[i]] = returned.self]
               /\ attrs' = attrs \cup TreeAttributesSet(ALL_RULES[i], tree)
    /\ calls' = calls + 1
    /\ pc' = "checked"
    /\ UNCHANGED <<mode, linesVars, postVars, mainVars, line_spec>>

NextRules == Check

SpecRules == InitRules /\ [][NextRules]_vars

\* the files the instances of the registry are used on, one after another
ReuseFiles ==
    {[filename |-> a_py, text |-> s_thread_list, tree |-> _safe_parse(s_thread_list)],
     [filename |-> b_py, text |-> s_except_bare_pass \o <<"\n">> \o s_def_import,
      tree |-> _safe_parse(s_except_bare_pass \o <<"\n">> \o s_def_import)],
     [filename |-> a_b_py, text |-> bad_def, tree |-> _safe_parse(bad_def)]}

\* the registry as constructed at import, before any file
InitReuse ==
    /\ mode = "reuse"
    /\ pc = "start"
    /\ IdleLines /\ IdlePost /\ IdleMain /\ IdleRules

\* found = ALL_RULES[i].check(filename, tree, text) for one more file, on the
\* instance left by the checks before; items keeps what the check before returned
CheckFile ==
    /\ mode = "reuse"
    /\ calls < MaxCalls
    /\ \E i \in 1..Len(ALL_RULES), file \in ReuseFiles :
           LET returned == Invoke(inst[ALL_RULES[i]], file.filename, file.tree, file.text)
           IN  /\ rule' = i
               /\ input' = <<file.filename>>
               /\ text' = file.text
               /\ tree' = file.tree
               /\ found' = returned.issues
               /\ inst' = [inst EXCEPT ![ALL_RULES[i]] = returned.self]
               /\ attrs' = TreeAttributesSet(ALL_RULES[i], file.tree)
    /\ items' = [k \in 1..Len(found) |-> <<input[1], found[k]>>]
    /\ calls' = calls + 1
    /\ pc' = "checked"
    /\ UNCHANGED <<mode, path_kind, linesVars, args, written, exit_code, line_spec>>

NextReuse == CheckFile

SpecReuse == InitReuse /\ [][NextReuse]_vars

----------------------------------------------------------------------------
(* Claims about merging and sorting.                                       *)

\* the line numbers one comma part lists: n when the part is the decimal of n,
\* a..b when it is the ascending range 'a-b'
PartDenotes(part) ==
    IF AllDigits(part)
    THEN {n \in 0..MaxSpecLine : part = str(n)}
    ELSE IF Contains(part, "-")
    THEN LET ends == Split1(part, "-")
         IN  UNION {a..b : <<a, b>> \in
                       {a \in 0..MaxSpecLine : ends[1] = str(a)} \X
                       {b \in 0..MaxSpecLine : ends[2] = str(b)}}
    ELSE {}

\* the line numbers a line-spec lists
Denotes(w) ==
    LET parts == Split(w, ",")
    IN  UNION {PartDenotes(parts[k]) : k \in 1..Len(parts)}

\* w with leading and trailing blanks dropped and every inner run of blanks
\* written as one space
Squeeze(w) ==
    LET keep == {i \in 1..Len(w) :
                    \/ ~IsSpace(w[i])
                    \/ /\ i > 1 /\ ~IsSpace(w[i - 1])
                       /\ \E j \in (i + 1)..Len(w) : ~IsSpace(w[j])}
        idx == Sorted(keep)
    IN  [k \in 1..Len(idx) |-> IF IsSpace(w[idx[k]]) THEN " " ELSE w[idx[k]]]

\* x and y have the same merge key
SameKey(x, y) ==
    /\ x[1] = y[1]
    /\ x[2].category = y[2].category
    /\ Squeeze(x[2].potential_impact) = Squeeze(y[2].potential_impact)
    /\ Squeeze(x[2].description) = Squeeze(y[2].description)

\* HIGH > MEDIUM > LOW
Severity(p) == CASE p = "HIGH" -> 3 [] p = "MEDIUM" -> 2 [] p = "LOW" -> 1

\* C5: a group of n >= 1 issues that share one merge key merges into exactly one
\* issue, whose priority is the highest of the group whatever the input order and
\* whose impacted_lines lists exactly the union of the members' line numbers.
C5_MergeGroupMaxPriorityUnionLines ==
    (/\ mode = "post" /\ pc = "merged"
     /\ input # <<>>
     /\ \A i \in 1..Len(input) : SameKey(input[i], input[1]))
    => /\ Len(items) = 1
       /\ \A i \in 1..Len(input) :
              Severity(items[1][2].priority) >= Severity(input[i][2].priority)
       /\ \E i \in 1..Len(input) : items[1][2].priority = input[i][2].priority
       /\ Denotes(items[1][2].impacted_lines) =
              UNION {Denotes(input[i][2].impacted_lines) : i \in 1..Len(input)}

\* C5 witness: line '1' (LOW) and line '3' (HIGH) on one key gave HIGH and '1,3'.
C5_Witness ==
    /\ mode = "post" /\ pc = "merged"
    /\ input = << <<a_py, Issue(Cat, "LOW", <<"1">>, ImpI, x_y)>>,
                  <<a_py, Issue(Cat, "HIGH", <<"3">>, ImpI, x_y)>> >>
    /\ Len(items) = 1
    /\ items[1][2].priority = "HIGH"
    /\ items[1][2].impacted_lines = <<"1", ",", "3">>

\* the positions of input at which a merge key occurs for the first time
FirstOccurrences(list) ==
    Sorted({i \in 1..Len(list) : \A j \in 1..(i - 1) : ~SameKey(list[j], list[i])})

\* C6: merge returns one entry per distinct merge key, in the order in which the
\* keys first occur in the input, and an entry holds nothing of an issue with
\* another key: its file, category, priority and lines come from its own group.
C6_MergeOnePerKeyInFirstOrder ==
    (mode = "post" /\ pc = "merged")
    => LET firsts == FirstOccurrences(input)
       IN  /\ Len(items) = Len(firsts)
           /\ \A k \in 1..Len(firsts) :
                  LET f == input[firsts[k]]
                      group == {i \in 1..Len(input) : SameKey(input[i], f)}
                  IN  /\ k <= Len(items)
                      /\ items[k][1] = f[1]
                      /\ items[k][2].category = f[2].category
                      /\ \E i \in group : items[k][2].priority = input[i][2].priority
                      /\ Denotes(items[k][2].impacted_lines) =
                             UNION {Denotes(input[i][2].impacted_lines) : i \in group}

\* C6 witness: three issues, the first and the third on one key (written with
\* different blanks), the second of another category: two entries, in that order.
C6_Witness ==
    /\ mode = "post" /\ pc = "merged"
    /\ input = << <<a_py, Issue(Cat, "LOW", <<"1">>, ImpI, x_y)>>,
                  <<a_py, Issue(Dog, "MEDIUM", <<"7">>, ImpI, x_y)>>,
                  <<a_py, Issue(Cat, "MEDIUM", <<"2", "-", "4">>, ImpI, x__y)>> >>
    /\ Len(items) = 2
    /\ items[1][2].category = Cat /\ items[1][2].impacted_lines = <<"1", "-", "4">>
    /\ items[2][2].category = Dog /\ items[2][2].impacted_lines = <<"7">>

\* the first number of a line-spec that starts with a number
FirstNumber(w) ==
    CHOOSE n \in 0..MaxSpecLine :
        /\ Len(w) >= Len(str(n))
        /\ SubSeq(w, 1, Len(str(n))) = str(n)
        /\ (Len(w) = Len(str(n)) \/ ~IsDigit(w[Len(str(n)) + 1]))

StartsWithNumber(w) == w # <<>> /\ IsDigit(w[1])

\* x and y agree on the four sort keys
SameSortKeys(x, y) ==
    /\ x[2].priority = y[2].priority
    /\ x[2].category = y[2].category
    /\ basename(x[1]) = basename(y[1])
    /\ FirstNumber(x[2].impacted_lines) = FirstNumber(y[2].impacted_lines)

\* x is strictly before y: priority descending, then category, then file base
\* name, then first impacted line, all ascending
SortsBefore(x, y) ==
    \/ Severity(x[2].priority) > Severity(y[2].priority)
    \/ /\ x[2].priority = y[2].priority
       /\ \/ StrLess(x[2].category, y[2].category)
          \/ /\ x[2].category = y[2].category
             /\ \/ StrLess(basename(x[1]), basename(y[1]))
                \/ /\ basename(x[1]) = basename(y[1])
                   /\ FirstNumber(x[2].impacted_lines) < FirstNumber(y[2].impacted_lines)

\* the entries of list that agree with x on the four sort keys, in list order
KeyClass(list, x) == SelectSeq(list, LAMBDA y : SameSortKeys(y, x))

\* C7: sort_findings returns a permutation of its input ordered by priority
\* descending, category ascending, file base name ascending and first impacted
\* line ascending; entries equal on the four keys keep their input order (so
\* each class of equal keys is the same list before and after).
C7_SortStablePermutation ==
    (/\ mode = "post" /\ pc = "sorted"
     /\ \A i \in 1..Len(input) : StartsWithNumber(input[i][2].impacted_lines))
    => /\ Len(items) = Len(input)
       /\ \A k \in 1..(Len(items) - 1) :
              \/ SortsBefore(items[k], items[k + 1])
              \/ SameSortKeys(items[k], items[k + 1])
       /\ \A i \in 1..Len(input) :
              KeyClass(items, input[i]) = KeyClass(input, input[i])

\* C7 witness: the list was reordered by base name ('a.py' of b/a.py before
\* 'b.py' of a/b.py, against the order of the full paths and of the input), and
\* '12-13' and '12', equal on all four keys, kept their input order.
C7_Witness ==
    /\ mode = "post" /\ pc = "sorted"
    /\ input = << <<a_b_py, Issue(Cat, "HIGH", <<"3", ",", "7", ",", "9">>, ImpI, zz)>>,
                  <<b_a_py, Issue(Cat, "HIGH", <<"1", "2", "-", "1", "3">>, ImpI, zz)>>,
                  <<b_a_py, Issue(Cat, "HIGH", <<"1", "2">>, ImpI, zz)>> >>
    /\ items = <<input[2], input[3], input[1]>>

\* the first and the last line number of a comma part 'a' or 'a-b'
PartFirst(part) ==
    IF Contains(part, "-") THEN DigitsVal(Split1(part, "-")[1]) ELSE DigitsVal(part)

PartLast(part) ==
    IF Contains(part, "-") THEN DigitsVal(Split1(part, "-")[2]) ELSE DigitsVal(part)

\* a comma part that is a line number, or a range 'a-b' of two line numbers
\* that does not descend
PlainPart(part) ==
    \/ AllDigits(part)
    \/ /\ Contains(part, "-")
       /\ AllDigits(Split1(part, "-")[1])
       /\ AllDigits(Split1(part, "-")[2])
       /\ PartFirst(part) <= PartLast(part)

\* the part '+K more', K at least 1, that ends a truncated line-spec
MorePart(part) ==
    /\ Len(part) > 6
    /\ part[1] = "+"
    /\ AllDigits(SubSeq(part, 2, Len(part) - 5))
    /\ DigitsVal(SubSeq(part, 2, Len(part) - 5)) >= 1
    /\ SubSeq(part, Len(part) - 4, Len(part)) = more

\* a non-empty line-spec: a line, a range, a comma-separated list of lines and
\* ranges in ascending order without overlap, or such a list followed by
\* '+K more'
ValidLineSpec(w) ==
    LET parts == Split(w, ",")
        n == IF MorePart(parts[Len(parts)]) THEN Len(parts) - 1 ELSE Len(parts)
    IN  /\ w # <<>>
        /\ n >= 1
        /\ \A k \in 1..n : PlainPart(parts[k])
        /\ \A k \in 1..(n - 1) : PartLast(parts[k]) < PartFirst(parts[k + 1])

\* C8: in a run of main every issue, as the rules return it through the
\* priority filter and the truncation step of run_on_file and as merge returns
\* it, has a non-empty impacted_lines that is a valid line-spec; merge never
\* outputs an empty one.
C8_ImpactedLinesNonEmptyValid ==
    mode = "main" =>
        \A k \in 1..Len(items) : ValidLineSpec(items[k][2].impacted_lines)

\* C8 witness: under --max-lines 1 the findings of TodoComments on lines 1 and
\* 2 reached merge as '1' and '2' and left it as the range '1-2', next to the
\* finding of MissingDocstringRule on line 1.
C8_Witness ==
    /\ mode = "main" /\ pc = "merged"
    /\ args.max_lines = <<1>>
    /\ \E i, j \in 1..Len(input) :
           /\ input[i][2].description = TodoComments_message
           /\ input[j][2].description = TodoComments_message
           /\ input[i][2].impacted_lines = <<"1">>
           /\ input[j][2].impacted_lines = <<"2">>
    /\ \E k \in 1..Len(items) :
           /\ items[k][2].description = TodoComments_message
           /\ items[k][2].impacted_lines = <<"1", "-", "2">>
    /\ \E k \in 1..Len(items) :
           /\ items[k][2].description # TodoComments_message
           /\ items[k][2].impacted_lines = <<"1">>

----------------------------------------------------------------------------
(* Claims about the driver, the rules without a tree and the exit code.    *)

\* the issues of a list of (filename, issue)
IssuesOf(list) == [k \in 1..Len(list) |-> list[k][2]]

\* C1: run_on_file on a file whose text does not parse returns the empty list,
\* whatever the text holds (TODO/FIXME, backslash paths, '.type == <digits>'),
\* for every min_priority and max_lines.
C1_UnparsableFileNoFindings ==
    (mode = "main" /\ pc = "analysed" /\ text # Unreadable /\ _safe_parse(text) = NoTree)
    => items = <<>>

\* C2: every rule of ALL_RULES returns the empty list when it is given no tree,
\* for every text.
C2_NoTreeEveryRuleEmpty ==
    (mode = "rules" /\ rule # 0 /\ tree = NoTree) => found = <<>>

\* what the rules of the registry return for a file, rule after rule
RuleFindings(rules, path, t, w) ==
    Concat([i \in 1..Len(rules) |-> check(rules[i], path, t, w)])

\* C9: run_on_file returns exactly the findings of the rules whose priority is
\* at or above min_priority (HIGH > MEDIUM > LOW): none below it is returned and
\* none at or above it is dropped.
C9_MinPriorityFilterExact ==
    (mode = "main" /\ pc = "analysed" /\ text # Unreadable)
    => IssuesOf(items) =
           SelectSeq(RuleFindings(ALL_RULES, args.file, tree, text),
                     LAMBDA f : Severity(f.priority) >= Severity(args.min_priority))

\* C9 witness: with --min-priority MEDIUM a file with a MEDIUM and two LOW
\* findings returned the MEDIUM one alone.
C9_Witness ==
    /\ mode = "main" /\ pc = "analysed"
    /\ args.min_priority = "MEDIUM"
    /\ text = assert_1 \o <<"\n">> \o pass_todo
    /\ Len(RuleFindings(ALL_RULES, args.file, tree, text)) = 3
    /\ Len(items) = 1
    /\ items[1][2].priority = "MEDIUM"

\* C10: main returns 2 exactly when --fail-on is given and a finding of the
\* reported list has a priority at or above it, and 0 in every other run.
C10_ExitCodeTwoIffThresholdMet ==
    (mode = "main" /\ pc = "done")
    => /\ exit_code \in {0, 2}
       /\ exit_code = 2 <=>
              /\ args.fail_on # None
              /\ \E k \in 1..Len(written[1]) :
                     Severity(written[1][k][2].priority) >= Severity(args.fail_on)

\* C10 witness: --fail-on MEDIUM on a report whose worst finding is MEDIUM
\* returned 2.
C10_Witness ==
    /\ mode = "main" /\ pc = "done"
    /\ args.fail_on = "MEDIUM"
    /\ written # <<>> /\ written[1] # <<>>
    /\ \A k \in 1..Len(written[1]) : written[1][k][2].priority # "HIGH"
    /\ \E k \in 1..Len(written[1]) : written[1][k][2].priority = "MEDIUM"
    /\ exit_code = 2

\* C11: in every run of main the stages come in the order filter/truncation
\* (analysis), merge only with --merge-issues, sort, reporters, exit; the CSV,
\* JSON and log writers are given the same list, the output of sort_findings,
\* and nothing changes the list after the sort.
C11_StagesInOrderSameSortedList ==
    [][mode = "main" =>
        /\ pc' = "analysed" => pc = "start"
        /\ pc' = "merged" =>
               /\ pc = "analysed" /\ args.merge_issues
               /\ items' = merge_same_issue_across_lines(items)
        /\ pc' = "sorted" =>
               /\ pc = (IF args.merge_issues THEN "merged" ELSE "analysed")
               /\ items' = sort_findings(items)
        /\ pc' = "reported" =>
               /\ pc = "sorted" /\ items' = items
               /\ written'[1] = <<sort_findings(input)>>[1]
               /\ \A k \in 2..3 : written'[k] \in {<<>>, <<sort_findings(input)>>}
        /\ pc' = "done" =>
               /\ pc = "reported" /\ items' = items /\ written' = written]_vars

\* C11 witness: a run with --merge-issues ended after the three reporters were
\* given the same list, which the sort had reordered.
C11_Witness ==
    /\ mode = "main" /\ pc = "done" /\ args.merge_issues
    /\ Len(items) >= 2 /\ items # input
    /\ written = <<items, <<items>>, <<items>>>>

\* the places <<i, p>> (rule i of ALL_RULES, its p-th finding) whose finding,
\* truncated as asked, is the issue x
Origins(x) ==
    UNION {LET f == check(ALL_RULES[i], args.file, tree, text)
           IN  {<<i, p>> : p \in {q \in 1..Len(f) : Truncated(f[q], args.max_lines) = x}} :
           i \in 1..Len(ALL_RULES)}

\* C16: run_on_file returns the findings rule by rule: every returned issue is
\* a finding of some rule, the findings of the rule at position i come before
\* those of the rule at position j > i, and the findings of one rule keep the
\* order the rule gave them; the filter and the truncation reorder nothing.
C16_FindingsInRegistryOrder ==
    (mode = "main" /\ pc = "analysed" /\ text # Unreadable)
    => LET origins == [l \in 1..Len(items) |-> Origins(items[l][2])] @@ <<>>
       IN  \A l \in 1..Len(items) :
               /\ origins[l] # {}
               /\ \A k \in 1..(l - 1) :
                      \E a \in origins[k], b \in origins[l] :
                          a[1] < b[1] \/ (a[1] = b[1] /\ a[2] < b[2])

\* C16 witness: a TODO comment on line 1 and an assert on line 2: the assert
\* finding comes first, AssertForRuntime being earlier in the registry.
C16_Witness ==
    /\ mode = "main" /\ pc = "analysed" /\ args.min_priority = "LOW"
    /\ text = pass_todo \o <<"\n">> \o assert_1
    /\ Len(items) >= 2
    /\ items[1][2].impacted_lines = <<"2">> /\ items[1][2].description = AssertForRuntime_message
    /\ items[2][2].impacted_lines = <<"1">> /\ items[2][2].description = TodoComments_message

----------------------------------------------------------------------------
(* Rule.make called on its own, on every line_spec within the bounds.      *)

\* the static category, priority and impact of the rule make is called on
Selves ==
    {[category |-> AssertForRuntime_category, priority |-> "MEDIUM",
      impact |-> AssertForRuntime_impact],
     [category |-> TodoComments_category, priority |-> "LOW",
      impact |-> TodoComments_impact]}

\* a line number, a tuple of at most MaxNums line numbers (the (start, end)
\* pairs among them), or a list of at most MaxNums line numbers
LineSpecs ==
    {[int |-> n] : n \in 0..MaxLineNo}
    \cup {[tuple |-> l] : l \in NumLists}
    \cup {[lines |-> l] : l \in NumLists}

InitMake ==
    /\ mode = "make"
    /\ pc = "start"
    /\ IdleLines /\ IdlePost /\ IdleMain /\ IdleRules

\* found = [self.make(line_spec, message)]
MakeCall ==
    /\ mode = "make" /\ pc = "start"
    /\ \E self \in Selves, l \in LineSpecs, message \in {x_y, zz} :
           /\ line_spec' = l
           /\ input' = <<self, message>>
           /\ found' = <<make(self, l, message)>>
    /\ pc' = "made"
    /\ UNCHANGED <<mode, linesVars, items, mainVars, rule, inst, attrs, calls>>

NextMake == MakeCall

SpecMake == InitMake /\ [][NextMake]_vars

\* w is the decimal numeral of n, without sign, blank or leading zero
Decimal(w, n) ==
    /\ w # <<>> /\ AllDigits(w) /\ DigitsVal(w) = n
    /\ Len(w) = 1 \/ w[1] # "0"

\* C17: Rule.make builds an Issue with the rule's category, priority and impact
\* and the message; impacted_lines is the numeral of a single line number,
\* 'start-end' for a (start, end) pair, and for any other collection of line
\* numbers (a list, or a tuple that is not a pair) the numerals of its
\* distinct elements in ascending order, joined by commas.
C17_MakeRendersLineSpec ==
    (mode = "make" /\ pc = "made")
    => LET self == input[1]
           iss == found[1]
           w == iss.impacted_lines
           parts == Split(w, ",")
           pair == "tuple" \in DOMAIN line_spec /\ Len(line_spec.tuple) = 2
           collection == IF "tuple" \in DOMAIN line_spec THEN line_spec.tuple
                         ELSE line_spec.lines
       IN  /\ iss # IndexError
           /\ iss.category = self.category /\ iss.priority = self.priority
           /\ iss.potential_impact = self.impact /\ iss.description = input[2]
           /\ "int" \in DOMAIN line_spec => Decimal(w, line_spec.int)
           /\ pair =>
                  \E k \in 2..(Len(w) - 1) :
                      /\ w[k] = "-"
                      /\ Decimal(SubSeq(w, 1, k - 1), line_spec.tuple[1])
                      /\ Decimal(SubSeq(w, k + 1, Len(w)), line_spec.tuple[2])
           /\ ("int" \notin DOMAIN line_spec /\ ~pair /\ collection = <<>>) => w = <<>>
           /\ ("int" \notin DOMAIN line_spec /\ ~pair /\ collection # <<>>) =>
                  /\ \A k \in 1..Len(parts) : AllDigits(parts[k]) /\ parts[k] # <<>>
                  /\ \A k \in 1..Len(parts) : Decimal(parts[k], DigitsVal(parts[k]))
                  /\ \A k \in 1..(Len(parts) - 1) : DigitsVal(parts[k]) < DigitsVal(parts[k + 1])
                  /\ {DigitsVal(parts[k]) : k \in 1..Len(parts)} = SetOf(collection)

\* make([9, 2, 9], ...) gave '2,9'
MadeFromList ==
    /\ mode = "make" /\ pc = "made"
    /\ line_spec = [lines |-> <<9, 2, 9>>]
    /\ found[1].impacted_lines = <<"2", ",", "9">>

\* make((9, 2, 9), ...) gave '9-2'
MadeFromLongTuple ==
    /\ mode = "make" /\ pc = "made"
    /\ line_spec = [tuple |-> <<9, 2, 9>>]
    /\ found[1].impacted_lines = <<"9", "-", "2">>

\* make((5,), ...) raised IndexError
MadeFromShortTuple ==
    /\ mode = "make" /\ pc = "made"
    /\ line_spec = [tuple |-> <<5>>]
    /\ found[1] = IndexError

----------------------------------------------------------------------------
(* Claims about single rules.                                              *)

\* the rule of that name has been checked on a tree
Checked(name) == mode = "rules" /\ rule # 0 /\ ALL_RULES[rule] = name /\ tree # NoTree

\* how often x is in the list
Count(x, list) == Len(SelectSeq(list, LAMBDA y : y = x))

IsLoad(n) == n.type = "Name" /\ n.ctx = "Load"

\* the nodes of the tree outside every function body: the walk stops at the body of a
\* function and goes on into its arguments and their defaults
RECURSIVE OutsideFunctionBodies(_)
OutsideFunctionBodies(nodes) ==
    IF nodes = <<>> THEN <<>>
    ELSE LET node == Head(nodes)
             below == IF node.type \in FunctionTypes
                      THEN ChildrenIn(node, <<"args">>) ELSE Children(node)
         IN  <<node>> \o OutsideFunctionBodies(below) \o OutsideFunctionBodies(Tail(nodes))

\* the names some statement of the tree binds (an assignment, an import, a def or
\* class, a parameter), and the built-in names
BoundOrBuiltin(t) ==
    _BUILTINS \cup {"__name__", "__file__"}
        \cup (LET nodes == Walk(t) IN UNION {DefinedBy(nodes[k]) : k \in 1..Len(nodes)})

\* the 'might be undefined' finding for the name node n
UndefinedFinding(n) ==
    Issue(UndefinedNameRule_strings.category, "HIGH", str(n.lineno),
          UndefinedNameRule_strings.impact,
          UndefinedNameRule_strings.prefix \o IdChars[n.id]
              \o UndefinedNameRule_strings.suffix)

\* C12: for every occurrence of a name loaded at module scope (outside every
\* function body) that nothing binds and that is no built-in, UndefinedNameRule.check
\* returns exactly one 'might be undefined' finding: as many such findings for a
\* line and a name as the line has module-scope loads of the name.
C12_ModuleScopeUndefinedOnce ==
    Checked("UndefinedNameRule") =>
        LET loads == SelectSeq(OutsideFunctionBodies(<<tree>>), IsLoad)
        IN  \A k \in 1..Len(loads) :
                loads[k].id \notin BoundOrBuiltin(tree)
                    => Count(UndefinedFinding(loads[k]), found) = Count(loads[k], loads)

\* C13: the two passes of UndefinedNameRule.check look at every name load of the
\* tree exactly once, and no name occurrence is reported twice: a finding for a line
\* and a name is returned at most as often as the line loads the name.
C13_EveryLoadVisitedOnce ==
    Checked("UndefinedNameRule") =>
        LET loads == SelectSeq(Walk(tree), IsLoad)
        IN  \A k \in 1..Len(loads) :
                /\ Count(loads[k], UndefinedNameRule_examined(tree)) = Count(loads[k], loads)
                /\ Count(UndefinedFinding(loads[k]), found) <= Count(loads[k], loads)

----------------------------------------------------------------------------
(* Claims about the instances of the registry.                             *)

\* C14: whatever checks were made before on the shared instances of ALL_RULES,
\* a check returns the list a freshly constructed rule returns for the same
\* filename, tree and text, and the accumulator of a visitor rule holds the
\* findings of that check and no finding of an earlier one.
C14_NoStateBetweenChecks ==
    (mode = "reuse" /\ rule # 0) =>
        /\ found = check(ALL_RULES[rule], input[1], tree, text)
        /\ (ALL_RULES[rule] \in VisitorRules /\ tree # NoTree)
               => inst[ALL_RULES[rule]]._issues = found

\* ThreadSafetyRule reported for a.py and is then checked on b.py, where it finds
\* nothing
C14_Witness ==
    /\ mode = "reuse"
    /\ calls = 2
    /\ ALL_RULES[rule] = "ThreadSafetyRule"
    /\ Len(items) = 1
    /\ items[1][1] = a_py
    /\ items[1][2].category = ThreadSafetyRule_strings.category
    /\ input = <<b_py>>
    /\ found = <<>>
    /\ inst["ThreadSafetyRule"]._issues = <<>>
    /\ inst["ThreadSafetyRule"]._global_writes = {}

\* C15: while rules run over a file, the only attribute any of them sets on a node of
\* the shared tree is 'parent'.
C15_OnlyParentSetOnTree ==
    (mode = "rules" /\ rule # 0) => attrs \subseteq {"parent"}

----------------------------------------------------------------------------
(* Claims about handlers, risky calls and defaults.                        *)

\* the findings of the list for that line
FoundAt(list, lineno) == SelectSeq(list, LAMBDA f : f.impacted_lines = str(lineno))

Handlers(t) == SelectSeq(Walk(t), LAMBDA n : n.type = "ExceptHandler")

\* a bare except whose body is empty or made of pass and ... only
BareAndEmpty(h) ==
    /\ h.exc_type = NoTree
    /\ \A k \in 1..Len(h.body) :
           \/ h.body[k].type = "Pass"
           \/ /\ h.body[k].type = "Expr"
              /\ h.body[k].value.type = "Constant"
              /\ h.body[k].value.constant = "Ellipsis"

\* a handler for one named type other than Exception and BaseException whose body
\* has a statement that is neither pass nor a bare constant
SpecificAndNonTrivial(h) ==
    /\ h.exc_type # NoTree
    /\ h.exc_type.type = "Name"
    /\ h.exc_type.id \notin {"Exception", "BaseException"}
    /\ \E k \in 1..Len(h.body) :
           /\ h.body[k].type # "Pass"
           /\ ~(h.body[k].type = "Expr" /\ h.body[k].value.type = "Constant")

\* C18: for every handler of the tree, a bare except with an empty or
\* pass/ellipsis-only body gets the catch-all finding of BareOrBroadExcept and the
\* does-nothing finding of EmptyExceptBodyRule at its line, exactly one each; a
\* handler for a specific type with a non-trivial body gets no finding of either.
C18_BareEmptyBothSpecificNeither ==
    \A name \in {"BareOrBroadExcept", "EmptyExceptBodyRule"} :
        Checked(name) =>
            \A k \in 1..Len(Handlers(tree)) :
                LET h == Handlers(tree)[k]
                    expected ==
                        IF name = "BareOrBroadExcept"
                        THEN Issue(BareOrBroadExcept_strings.category, "HIGH", str(h.lineno),
                                   BareOrBroadExcept_strings.impact,
                                   BareOrBroadExcept_strings.catch_all)
                        ELSE Issue(EmptyExceptBodyRule_strings.category, "HIGH",
                                   str(h.lineno), EmptyExceptBodyRule_strings.impact,
                                   src_m_py \o EmptyExceptBodyRule_strings.does_nothing)
                IN  /\ BareAndEmpty(h) => FoundAt(found, h.lineno) = <<expected>>
                    /\ SpecificAndNonTrivial(h) => FoundAt(found, h.lineno) = <<>>

\* EmptyExceptBodyRule checked on 'try: pass / except: ...'
C18_Witness ==
    /\ Checked("EmptyExceptBodyRule")
    /\ text = s_except_bare_ellipsis
    /\ Len(found) = 1
    /\ found[1].impacted_lines = <<"2">>
    /\ BareAndEmpty(Handlers(tree)[1])

\* the calls name.attr(...) of the tree
AttributeCalls(t) ==
    SelectSeq(Walk(t), LAMBDA n : /\ n.type = "Call"
                                  /\ n.func.type = "Attribute"
                                  /\ n.func.value.type = "Name")

\* the call has the keyword shell=True
HasShellTrue(call) ==
    \E k \in 1..Len(call.keywords) :
        /\ call.keywords[k].arg = "shell"
        /\ call.keywords[k].value.type = "Constant"
        /\ call.keywords[k].value.constant = "True"

\* C19: DangerousFunctions returns exactly one finding at the line of every
\* os.system(...) call and of every subprocess.<name>(..., shell=True) call, and none
\* at the line of a subprocess call with shell=False or without a shell keyword
\* (the files have one call to a line).
C19_OneFindingPerRiskyCall ==
    Checked("DangerousFunctions") =>
        \A k \in 1..Len(AttributeCalls(tree)) :
            LET call == AttributeCalls(tree)[k]
                on == call.func.value.id
            IN  /\ (on = "os" /\ call.func.attr = "system")
                       => Len(FoundAt(found, call.lineno)) = 1
                /\ (on = "subprocess" /\ HasShellTrue(call))
                       => Len(FoundAt(found, call.lineno)) = 1
                /\ (on = "subprocess" /\ ~HasShellTrue(call))
                       => FoundAt(found, call.lineno) = <<>>

\* DangerousFunctions checked on subprocess.run('x', shell=True)
C19_Witness ==
    /\ Checked("DangerousFunctions")
    /\ text = s_subprocess_shell_true
    /\ Len(found) = 1
    /\ found[1].description = DangerousFunctions_strings.shell_true

Functions(t) == SelectSeq(Walk(t), LAMBDA n : n.type \in FunctionTypes)

\* a list, dict or set literal, or a call of list, dict or set
IsMutable(d) ==
    \/ d.type \in {"List", "Dict", "Set"}
    \/ d.type = "Call" /\ d.func.type = "Name" /\ d.func.id \in {"list", "dict", "set"}

\* the defaults of the positional and of the keyword-only parameters
DefaultsOf(fn) == SelectSeq(fn.args.defaults \o fn.args.kw_defaults, LAMBDA d : d # NoTree)

\* a finding says 'Mutable default', or 'Mutable keyword-only default', of function
IsMutableDefaultFinding(f, fn) ==
    /\ f.impacted_lines = str(fn.lineno)
    /\ \E prefix \in {MutableDefaultArgs_strings.default_prefix,
                       MutableDefaultArgs_strings.kw_default_prefix} :
           f.description = prefix \o IdChars[fn.name] \o MutableDefaultArgs_strings.suffix

\* C20: MutableDefaultArgs returns a mutable-default finding for every function and
\* async function that has a mutable default, positional or keyword-only, and no
\* finding for a function all of whose defaults are immutable (the files have one
\* def to a line).
C20_MutableDefaultFlagged ==
    Checked("MutableDefaultArgs") =>
        \A k \in 1..Len(Functions(tree)) :
            LET fn == Functions(tree)[k]
                mutable == SelectSeq(DefaultsOf(fn), IsMutable)
            IN  /\ mutable # <<>>
                       => \E j \in 1..Len(found) : IsMutableDefaultFinding(found[j], fn)
                /\ mutable = <<>> => FoundAt(found, fn.lineno) = <<>>

\* MutableDefaultArgs checked on 'def g(*, k={}): return k'
C20_Witness ==
    /\ Checked("MutableDefaultArgs")
    /\ text = s_def_kwonly_dict_default
    /\ Len(found) = 1
    /\ found[1].impacted_lines = <<"1">>

----------------------------------------------------------------------------
(* Claims about scopes: names, threads and processes, complexity.          *)

\* the function definitions of the tree, in the order of ast.walk
FunctionsOf(t) == SelectSeq(Walk(t), LAMBDA node : node.type \in FunctionTypes)

\* the names bound at module level: by a statement outside every function body, the
\* parameters of the functions left out
ModuleBound(t) ==
    LET nodes == SelectSeq(OutsideFunctionBodies(<<t>>),
                           LAMBDA node : node.type # "arguments")
    IN  UNION {DefinedBy(nodes[k]) : k \in 1..Len(nodes)}

\* C28: the defined set of a scope does not bleed across scopes.  The module-defined
\* set of UndefinedNameRule holds no name that is bound only inside a function (a
\* local or a parameter): each of its names is a built-in or bound at module level;
\* and a name loaded in the body of a function that is neither module-defined, nor a
\* parameter of the function, nor bound in its own body, is flagged.
C28_DefinedSetsDoNotBleed ==
    Checked("UndefinedNameRule") =>
        LET module_defined == _collect_defined_in_scope(tree.body)
            at_module == _BUILTINS \cup {"__name__", "__file__"} \cup ModuleBound(tree)
            fns == FunctionsOf(tree)
            own(fn) == DefinedBy(fn.args) \cup _collect_defined_in_scope(fn.body)
        IN  /\ module_defined \subseteq at_module
            /\ \A k \in 1..Len(fns) :
                   LET loads == SelectSeq(WalkBody(fns[k].body), IsLoad)
                   IN  \A l \in 1..Len(loads) :
                           loads[l].id \notin at_module \cup own(fns[k])
                               => Count(UndefinedFinding(loads[l]), found) >= 1

\* the scopes ConcurrencyRule analyses: the module body under the name '<module>',
\* and the body of every function definition under the name of the function
ScopesOf(t) ==
    <<[name |-> ConcurrencyRule_strings.module_scope, body |-> t.body, module |-> TRUE]>>
        \o [k \in 1..Len(FunctionsOf(t)) |->
               [name |-> IdChars[FunctionsOf(t)[k].name],
                body |-> FunctionsOf(t)[k].body, module |-> FALSE]]

\* the statements of a scope and the nodes in them, the ones nested in compound
\* statements included, the bodies of the functions defined in it left out
ScopeNodes(scope) == OutsideFunctionBodies(scope.body)

\* the call constructs a Thread (kind "thread") or a Process (kind "proc") of the
\* modules threading and multiprocessing
Constructs(t, kind, call) ==
    IF kind = "thread"
    THEN _is_ctor(call, ImportedAs(t, IdChars.threading, "Thread"), "threading", "Thread")
    ELSE _is_ctor(call, ImportedAs(t, IdChars.multiprocessing, "Process"),
                  "multiprocessing", "Process")

\* the variables the scope binds to a constructor call of the kind
BoundToCtor(t, scope, kind) ==
    LET nodes == ScopeNodes(scope)
    IN  UNION {{nodes[k].targets[i].id :
                   i \in {j \in 1..Len(nodes[k].targets) : nodes[k].targets[j].type = "Name"}} :
               k \in {j \in 1..Len(nodes) : /\ nodes[j].type = "Assign"
                                            /\ nodes[j].value.type = "Call"
                                            /\ Constructs(t, kind, nodes[j].value)}}

\* the scope calls the method on the variable
CallsOn(scope, v, method) ==
    LET nodes == ScopeNodes(scope)
    IN  \E k \in 1..Len(nodes) :
            /\ nodes[k].type = "Call" /\ nodes[k].func.type = "Attribute"
            /\ nodes[k].func.attr = method
            /\ nodes[k].func.value.type = "Name" /\ nodes[k].func.value.id = v

\* how many 'started but not joined' findings name the variable and the scope
NotJoinedCount(kind, v, scope) ==
    LET message == (IF kind = "thread" THEN ConcurrencyRule_strings.thread
                    ELSE ConcurrencyRule_strings.process)
                       \o IdChars[v] \o ConcurrencyRule_strings.not_joined
                       \o scope.name \o ConcurrencyRule_strings.close
    IN  Len(SelectSeq(found, LAMBDA issue : issue.description = message))

\* C23: for every scope ConcurrencyRule analyses, a variable the scope binds to a
\* Thread or Process constructor call and calls start on, wherever in the statements
\* of the scope the binding and the call are, has exactly one 'started but not joined'
\* finding for the scope when the scope never calls join on it, and none when it does.
C23_StartedNotJoinedOncePerScope ==
    Checked("ConcurrencyRule") =>
        \A k \in 1..Len(ScopesOf(tree)) : \A kind \in {"thread", "proc"} :
            LET scope == ScopesOf(tree)[k]
            IN  \A v \in BoundToCtor(tree, scope, kind) :
                    CallsOn(scope, v, "start")
                        => NotJoinedCount(kind, v, scope)
                               = IF CallsOn(scope, v, "join") THEN 0 ELSE 1

\* C24: ConcurrencyRule analyses the module body and each function body on its own.
\* A binding, a start call or a join call in the body of a function counts for the
\* scope of that function only: a 'started but not joined' finding for a scope names
\* a variable that the statements of that very scope bind to a constructor call and
\* start, and never join.
C24_ScopesAnalysedIndependently ==
    Checked("ConcurrencyRule") =>
        \A k \in 1..Len(ScopesOf(tree)) : \A kind \in {"thread", "proc"} :
            LET scope == ScopesOf(tree)[k]
            IN  \A v \in DOMAIN IdChars :
                    NotJoinedCount(kind, v, scope) > 0
                        => /\ v \in BoundToCtor(tree, scope, kind)
                           /\ CallsOn(scope, v, "start")
                           /\ ~CallsOn(scope, v, "join")

\* the 'created at import time' finding for a call on the line
ImportTimeFinding(lineno) ==
    Issue(ConcurrencyRule_strings.category, "MEDIUM", str(lineno),
          ConcurrencyRule_strings.impact, ConcurrencyRule_strings.import_time)

\* the calls that construct a multiprocessing Process or Pool when the module is
\* imported: at module scope, in no function body, and outside every
\* if __name__ == "__main__": block
ImportTimeCalls(t) ==
    SelectSeq(OutsideFunctionBodies(t.body),
              LAMBDA node :
                  /\ node.type = "Call"
                  /\ \/ Constructs(t, "proc", node)
                     \/ _is_ctor(node, ImportedAs(t, IdChars.multiprocessing, "Pool"),
                                 "multiprocessing", "Pool")
                  /\ ~_in_main(node.lineno, _collect_main_blocks(t)))

\* C25: ConcurrencyRule returns 'multiprocessing object created at import time'
\* exactly for the Process and Pool constructor calls that run when the module is
\* imported: a line has as many such findings as it has constructor calls at module
\* scope outside every main guard, and a call inside a guard or inside a function
\* body gives none.
C25_ImportTimeExactlyAtModuleScope ==
    Checked("ConcurrencyRule") =>
        LET nodes == Walk(tree)
            at_import == ImportTimeCalls(tree)
            lines == {nodes[k].lineno : k \in {j \in 1..Len(nodes) : nodes[j].type = "Call"}}
        IN  /\ \A lineno \in lines :
                   Count(ImportTimeFinding(lineno), found)
                       = Len(SelectSeq(at_import, LAMBDA node : node.lineno = lineno))
            /\ Len(SelectSeq(found, LAMBDA issue :
                                 issue.description = ConcurrencyRule_strings.import_time))
                   = Len(at_import)

\* the score of a definition: 1, and one more for every conditional, loop,
\* exception handler, with block, boolean operator, conditional expression,
\* comprehension and match statement in its subtree
ScoreOf(node) ==
    LET nodes == Walk(node)
    IN  1 + Cardinality({k \in 1..Len(nodes) :
                            nodes[k].type \in {"If", "For", "AsyncFor", "While",
                                               "ExceptHandler", "With", "AsyncWith",
                                               "BoolOp", "IfExp", "comprehension", "Match"}})

\* the finding of ComplexityRule for the definition with the two measured values
TooComplexFinding(node, cplx, loc) ==
    LET limits == FreshInstances["ComplexityRule"]
    IN  Issue(ComplexityRule_strings.category, "LOW", str(node.lineno),
              ComplexityRule_strings.impact,
              src_m_py \o ComplexityRule_strings[node.type] \o IdChars[node.name]
                  \o ComplexityRule_strings.too_complex \o str(cplx)
                  \o ComplexityRule_strings.loc \o str(loc)
                  \o ComplexityRule_strings.thresholds \o str(limits.max_complexity)
                  \o ComplexityRule_strings.or_loc \o str(limits.max_lines)
                  \o ComplexityRule_strings.close)

\* C27: ComplexityRule reports a function, async function or class definition
\* exactly when its score is above max_complexity (10) or its line count, end line -
\* start line + 1, is above max_lines (50), both strictly; the message of the finding
\* gives the score and the line count; nothing else is reported.
C27_ReportedIffOverThreshold ==
    Checked("ComplexityRule") =>
        LET limits == FreshInstances["ComplexityRule"]
            defs == SelectSeq(Walk(tree), LAMBDA node :
                                  node.type \in {"FunctionDef", "AsyncFunctionDef", "ClassDef"})
            lines(node) == (node.end_lineno - node.lineno) + 1
            over(node) == \/ ScoreOf(node) > limits.max_complexity
                          \/ lines(node) > limits.max_lines
            finding(node) == TooComplexFinding(node, ScoreOf(node), lines(node))
        IN  /\ \A k \in 1..Len(defs) :
                   Count(finding(defs[k]), found) = IF over(defs[k]) THEN 1 ELSE 0
            /\ Len(found) = Len(SelectSeq(defs, over))

\* the module-level mutable globals: the names a top-level assignment binds to a
\* list, dict or set literal
MutableGlobals(t) ==
    UNION {{t.body[j].targets[k].id :
               k \in {i \in 1..Len(t.body[j].targets) : t.body[j].targets[i].type = "Name"}} :
           j \in {i \in 1..Len(t.body) : /\ t.body[i].type = "Assign"
                                         /\ t.body[i].value.type \in {"Dict", "List", "Set"}}}

\* the initial binding of a mutable global: the first top-level assignment of a
\* literal to it
InitialBinding(t, g) ==
    t.body[Min({j \in 1..Len(t.body) :
                   /\ t.body[j].type = "Assign"
                   /\ t.body[j].value.type \in {"Dict", "List", "Set"}
                   /\ \E k \in 1..Len(t.body[j].targets) :
                          t.body[j].targets[k].type = "Name" /\ t.body[j].targets[k].id = g})]

\* the lines of the writes to the global after its initial binding: another
\* assignment to it or a method call on it (no statement of the model is an
\* augmented assignment)
WritesAfterBinding(t, g) ==
    LET nodes == Walk(t)
        assigns(n) == /\ n.type = "Assign"
                      /\ n # InitialBinding(t, g)
                      /\ \E k \in 1..Len(n.targets) : g \in _names_written(n.targets[k])
        calls_on(n) == /\ n.type = "Call" /\ n.func.type = "Attribute"
                       /\ n.func.value.type = "Name" /\ n.func.value.id = g
    IN  {nodes[k].lineno : k \in {j \in 1..Len(nodes) : assigns(nodes[j]) \/ calls_on(nodes[j])}}

\* the module holds a call that constructs a thread
ThreadConstructed(t) ==
    LET nodes == Walk(t)
    IN  \E k \in 1..Len(nodes) :
            /\ nodes[k].type = "Call"
            /\ \/ nodes[k].func.type = "Name" /\ nodes[k].func.id = "Thread"
               \/ nodes[k].func.type = "Attribute" /\ nodes[k].func.attr = "Thread"

\* C26: ThreadSafetyRule returns at most one finding for a file, and returns it
\* exactly when the module holds a thread-construction call and some module-level
\* mutable global is written after its initial binding; the finding names every such
\* global and is on the line of the first such write.
C26_OneFindingForWritesAfterBinding ==
    Checked("ThreadSafetyRule") =>
        LET implicated == {g \in MutableGlobals(tree) : WritesAfterBinding(tree, g) # {}}
            first == Min(UNION {WritesAfterBinding(tree, g) : g \in implicated})
        IN  /\ Len(found) <= 1
            /\ Len(found) = 1 <=> (ThreadConstructed(tree) /\ implicated # {})
            /\ Len(found) = 1 =>
                   /\ found[1].description =
                          src_m_py \o ThreadSafetyRule_strings.prefix
                              \o ReprNames(SortedNames(implicated))
                              \o ThreadSafetyRule_strings.suffix
                   /\ found[1].impacted_lines = str(first)

----------------------------------------------------------------------------
(* Claims about the exit code.                                             *)

\* C29: the exit code of main is the same with and without --merge-issues: in
\* every finished run it is 2 exactly when --fail-on is given and one of the
\* findings run_on_file returned, before any merge, has a priority at or above
\* it, and 0 otherwise; nothing on the right-hand side depends on the flag.
C29_ExitCodeSameWithMerge ==
    (mode = "main" /\ pc = "done")
    => LET unmerged == run_on_file(args.file, text, args.min_priority, args.max_lines)
           met == /\ args.fail_on # None
                  /\ \E k \in 1..Len(unmerged) :
                         Severity(unmerged[k].priority) >= Severity(args.fail_on)
       IN  exit_code = IF met THEN 2 ELSE 0

\* C29 witness: with --merge-issues and --fail-on LOW the TODO findings of lines
\* 1 and 2 were merged into one on '1-2', and main returned 2.
C29_Witness ==
    /\ mode = "main" /\ pc = "done"
    /\ args.merge_issues /\ args.fail_on = "LOW"
    /\ text = pass_todo \o <<"\n">> \o pass_todo
    /\ \E k \in 1..Len(items) :
           /\ items[k][2].description = TodoComments_message
           /\ items[k][2].impacted_lines = <<"1", "-", "2">>
    /\ exit_code = 2

----------------------------------------------------------------------------
(* A rule that reports several lines in one issue: the loop of run_on_file *)
(* over what the rule returned, then the merge of main.                    *)

\* the line numbers such a rule hands to Rule.make
KeepLines == {1, 2, 3, 10}

\* a line number, a (start, end) pair in either order, or a list of at most
\* MaxNums line numbers
KeepSpecs ==
    {[int |-> 1], [tuple |-> <<1, 3>>], [tuple |-> <<3, 1>>]}
    \cup {[lines |-> l] : l \in UNION {[1..n -> KeepLines] : n \in 0..MaxNums}}

\* --min-priority, and --max-lines absent or 0..MaxNums
KeepArgs ==
    [file : {src_m_py},
     min_priority : {"LOW", "MEDIUM", "HIGH"},
     fail_on : {None},
     max_lines : {NoInt} \cup {<<k>> : k \in 0..MaxNums},
     merge_issues : {TRUE}]

InitKeep ==
    /\ mode = "keep"
    /\ pc = "start"
    /\ args \in KeepArgs
    /\ text = NoText /\ tree = NoTree /\ path_kind = "file"
    /\ written = <<>> /\ exit_code = -1
    /\ IdleLines /\ IdlePost /\ IdleRules

\* findings = rule.check(path, tree, text): an issue made from a line_spec, alone
\* or followed by an issue on line 2 made by the same or by another rule
RuleReturns ==
    /\ mode = "keep" /\ pc = "start"
    /\ \E self \in Selves, l \in KeepSpecs :
           \E rest \in {<<>>} \cup {<<make(other, [int |-> 2], x_y)>> : other \in Selves} :
               /\ line_spec' = l
               /\ found' = <<make(self, l, x_y)>> \o rest
    /\ pc' = "checked"
    /\ UNCHANGED <<mode, linesVars, postVars, mainVars, rule, inst, attrs, calls>>

\* for iss in findings: the priority filter and the truncation of run_on_file
KeepIssues ==
    /\ mode = "keep" /\ pc = "checked"
    /\ LET issues == FilterFindings(found, args.min_priority, args.max_lines)
       IN  items' = [k \in 1..Len(issues) |-> <<args.file, issues[k]>>]
    /\ pc' = "kept"
    /\ UNCHANGED <<mode, linesVars, input, mainVars, rulesVars>>

\* all_issues = merge_same_issue_across_lines(all_issues)
MergeKept ==
    /\ mode = "keep" /\ pc = "kept"
    /\ input' = items
    /\ items' = merge_same_issue_across_lines(items)
    /\ pc' = "merged"
    /\ UNCHANGED <<mode, linesVars, mainVars, rulesVars>>

NextKeep == RuleReturns \/ KeepIssues \/ MergeKept

SpecKeep == InitKeep /\ [][NextKeep]_vars

\* the findings of the rule that pass the priority filter, in their order
PassFilter == SelectSeq(found, LAMBDA f : Severity(f.priority) >= Severity(args.min_priority))

\* now is was with its comma list cut to its first m entries and '+K more'
CutTo(was, now, m) ==
    LET parts == Split(was.impacted_lines, ",")
        got == Split(now.impacted_lines, ",")
        last == got[m + 1]
    IN  /\ Len(got) = m + 1
        /\ \A i \in 1..m : got[i] = parts[i]
        /\ Len(last) > 6 /\ last[1] = "+"
        /\ Decimal(SubSeq(last, 2, Len(last) - 5), Len(parts) - m)
        /\ SubSeq(last, Len(last) - 4, Len(last)) = more
        /\ now.category = was.category /\ now.priority = was.priority
        /\ now.potential_impact = was.potential_impact
        /\ now.description = was.description

\* C22: run_on_file, with max_lines a positive integer m, returns an issue whose
\* impacted_lines is a comma list of n > m entries with the first m entries in
\* their order followed by ',+K more', K = n - m, and the other fields as they
\* were; with n <= m, with max_lines None, or without a comma in impacted_lines,
\* it returns the issue unchanged.
C22_TruncationKeepsFirstEntries ==
    (mode = "keep" /\ pc = "kept")
    => /\ Len(items) = Len(PassFilter)
       /\ \A k \in 1..Len(items) :
              LET was == PassFilter[k]
                  now == items[k][2]
                  n == Len(Split(was.impacted_lines, ","))
                  comma == Contains(was.impacted_lines, ",")
                  m == args.max_lines
              IN  /\ (m # NoInt /\ m[1] > 0 /\ comma /\ n > m[1]) => CutTo(was, now, m[1])
                  /\ (m = NoInt \/ ~comma \/ (m[1] > 0 /\ n <= m[1])) => now = was

\* C22 witness: with --max-lines 2 the issue on lines 1,2,10 came back as
\* '1,2,+1 more', and the issue on line 2 after it unchanged.
C22_Witness ==
    /\ mode = "keep" /\ pc = "kept"
    /\ args.max_lines = <<2>>
    /\ Len(found) = 2 /\ Len(items) = 2
    /\ found[1].impacted_lines = <<"1", ",", "2", ",", "1", "0">>
    /\ items[1][2].impacted_lines = <<"1", ",", "2", ",", "+", "1">> \o more
    /\ items[2][2] = found[2]

\* C30: an issue whose line-spec run_on_file truncated to 'a,b,...,+K more' goes
\* through merge_same_issue_across_lines like any other: the '+K more' part, and
\* every part that is neither an integer nor an ascending 'a-b' range, is left
\* out, and the merged impacted_lines lists exactly the line numbers the members
\* of its group list explicitly, so it holds no '+K more' marker.
C30_MergeDropsMoreMarker ==
    (mode = "keep" /\ pc = "merged")
    => \A k \in 1..Len(items) :
           LET w == items[k][2].impacted_lines
               group == {i \in 1..Len(input) : SameKey(input[i], items[k])}
           IN  /\ ~Contains(w, "+") /\ ~HasSub(w, more)
               /\ Denotes(w) = UNION {Denotes(input[i][2].impacted_lines) : i \in group}

\* C30 witness: '1,+2 more' (lines 1,2,10 under --max-lines 1) and '2' of the same
\* rule were merged into '1-2'.
C30_Witness ==
    /\ mode = "keep" /\ pc = "merged"
    /\ args.max_lines = <<1>>
    /\ Len(input) = 2
    /\ input[1][2].impacted_lines = <<"1", ",", "+", "2">> \o more
    /\ input[2][2].impacted_lines = <<"2">>
    /\ Len(items) = 1
    /\ items[1][2].impacted_lines = <<"1", "-", "2">>

----------------------------------------------------------------------------
(* Claims about the command line.                                          *)

\* the file argument names nothing, names a directory, or does not end in .py
FailsValidation ==
    \/ path_kind \in {"missing", "dir"}
    \/ Len(args.file) < 3
    \/ SubSeq(args.file, Len(args.file) - 2, Len(args.file))
           \notin {<<".", c1, c2>> : c1 \in {"p", "P"}, c2 \in {"y", "Y"}}

\* C21: when the file argument fails validation, main ends with a non-zero exit
\* code straight from the start: run_on_file is never called (main never gets
\* past the start but by exiting, no tree is parsed, no finding collected, no rule
\* of ALL_RULES checked: its instances are as constructed) and no output is written.
C21_InvalidInputExitsBeforeAnalysis ==
    (mode = "main" /\ FailsValidation) =>
        /\ pc \in {"start", "exited"}
        /\ items = <<>> /\ tree = NoTree /\ written = <<>>
        /\ inst = FreshInstances /\ attrs = {}
        /\ pc = "exited" => exit_code \notin {0, -1}

\* main has exited on a file that exists and is named src/m.txt
C21_Witness ==
    /\ mode = "main" /\ pc = "exited"
    /\ path_kind = "file" /\ args.file = src_m_txt /\ text = pass_todo
    /\ exit_code = 2

====
